---- MODULE Spec2Model ----
(***************************************************************************)
(* Model of the Nexus Desktop SSH bridge (src-tauri/src/main.rs): the      *)
(* shared NexusState, connect_remote, execute_nexus_bridge,                *)
(* execute_shell_bridge and send_chat_message_stream, as concurrently      *)
(* running Tauri commands that synchronise on the tokio mutexes of         *)
(* NexusState.                                                             *)
(*                                                                         *)
(* Option<T> is a sequence of length at most one: <<>> is None, <<x>> is   *)
(* Some(x).  A String is a sequence of characters, a byte buffer a         *)
(* sequence of bytes; an ASCII lexeme ("{", "true", "\"hi\"") is one       *)
(* symbol, used both as byte string and as its decoded text.               *)
(***************************************************************************)
EXTENDS Integers, Sequences, FiniteSets, TLC

VARIABLES
    ssh_session,      \* NexusState.ssh_session: Option<Session>
    ssh_credentials,  \* NexusState.ssh_credentials: Option<SshCredentials>
    chat_history,     \* NexusState.chat_history: Vec<ChatMessageRecord>
    session_lock,     \* owner of the ssh_session mutex (Option<process>)
    creds_lock,       \* owner of the ssh_credentials mutex (Option<process>)
    events,           \* events emitted through app.emit, in order
    transportUp,      \* ids of the sessions whose transport is still up
    nSessions,        \* sessions established so far (the next session id - 1)
    nCalls,           \* commands invoked so far
    nReads,           \* non-empty channel reads delivered so far
    current_project,  \* NexusState.current_project: Option<PathBuf>
    active_swarms,    \* NexusState.active_swarms: HashMap<String, String>
    severed,          \* ids of the sessions whose transport has failed
    now,              \* chrono::Utc::now(): the wall clock
    replies,          \* what send_chat_message has returned so far: [message, res]
    pc,               \* per process: the await point / step it is at
    loc,              \* per process: the local variables of its command
    log               \* per process: what its current (or last) command did

vars == <<ssh_session, ssh_credentials, chat_history, session_lock, creds_lock,
          events, transportUp, nSessions, nCalls, nReads, current_project,
          active_swarms, severed, now, replies, pc, loc, log>>

-----------------------------------------------------------------------------
(* Bounds of the model *)

MaxCalls == 3
MaxSessions == 2
MaxReads == 3
MaxStreamCalls == 2
MaxChats == 1
MaxOps == 2
MaxClock == 2

Procs == {"p1", "p2"}

-----------------------------------------------------------------------------
(* Option, records *)

None == <<>>
Some(x) == <<x>>
IsSome(o) == o # <<>>
Unwrap(o) == o[1]

Merge(r, s) == [k \in DOMAIN r |-> IF k \in DOMAIN s THEN s[k] ELSE r[k]]

Ok(v) == [done |-> TRUE, ok |-> TRUE, val |-> v]
Err(m) == [done |-> TRUE, ok |-> FALSE, val |-> <<m>>]
Pending == [done |-> FALSE, ok |-> FALSE, val |-> <<>>]

-----------------------------------------------------------------------------
(* Text: UTF-8 decoding as the standard library does it.  Bytes are the    *)
(* ASCII lexemes, which decode to themselves, and the two bytes "C3" "A9"  *)
(* of the two-byte character U+00E9; "A9" is a continuation byte.          *)

RECURSIVE from_utf8_lossy(_)
\* String::from_utf8_lossy: every maximal invalid sequence becomes U+FFFD.
from_utf8_lossy(b) ==
    IF b = <<>> THEN <<>>
    ELSE IF Head(b) = "C3"
         THEN IF Len(b) >= 2 /\ b[2] = "A9"
              THEN <<"U+00E9">> \o from_utf8_lossy(SubSeq(b, 3, Len(b)))
              ELSE <<"U+FFFD">> \o from_utf8_lossy(Tail(b))
         ELSE IF Head(b) = "A9"
              THEN <<"U+FFFD">> \o from_utf8_lossy(Tail(b))
              ELSE <<Head(b)>> \o from_utf8_lossy(Tail(b))

RECURSIVE valid_utf8(_)
\* std::str::from_utf8(b).is_ok()
valid_utf8(b) ==
    IF b = <<>> THEN TRUE
    ELSE IF Head(b) = "C3"
         THEN Len(b) >= 2 /\ b[2] = "A9" /\ valid_utf8(SubSeq(b, 3, Len(b)))
         ELSE Head(b) # "A9" /\ valid_utf8(Tail(b))

\* Read::read_to_string on a drained channel: strict UTF-8, or an error.
read_to_string(b) ==
    IF valid_utf8(b) THEN Ok(from_utf8_lossy(b))
    ELSE Err("stream did not contain valid UTF-8")

-----------------------------------------------------------------------------
(* JSON: serde_json::from_str into a serde_json::Value, over the lexemes.  *)

StrLits == {"\"success\"", "\"data\"", "\"response\"", "\"error\"", "\"hi\"",
            "\"version\"", "\"1.0\""}
IsStrLit(t) == t \in StrLits

\* The text of a string literal (the lexeme without its quotes).
StrText(t) ==
    CASE t = "\"success\"" -> <<"success">>
      [] t = "\"data\"" -> <<"data">>
      [] t = "\"response\"" -> <<"response">>
      [] t = "\"error\"" -> <<"error">>
      [] t = "\"version\"" -> <<"version">>
      [] t = "\"1.0\"" -> <<"1.0">>
      [] OTHER -> <<"hi">>

JNull == [k |-> "null"]
JBool(b) == [k |-> "bool", b |-> b]
JStr(t) == [k |-> "str", s |-> t]
JObj(m) == [k |-> "obj", m |-> m]

ParseFail == [ok |-> FALSE, val |-> JNull, next |-> 0]
ParseOk(v, n) == [ok |-> TRUE, val |-> v, next |-> n]

RECURSIVE SkipWs(_, _)
\* the parser skips whitespace between tokens
SkipWs(t, i) == IF i <= Len(t) /\ t[i] = "\n" THEN SkipWs(t, i + 1) ELSE i

JInsert(m, key, v) == [x \in DOMAIN m \cup {key} |-> IF x = key THEN v ELSE m[x]]

RECURSIVE ParseValue(_, _), ParseMembers(_, _, _)
ParseValue(t, i) ==
    IF i > Len(t) THEN ParseFail
    ELSE IF t[i] = "true" THEN ParseOk(JBool(TRUE), i + 1)
    ELSE IF t[i] = "false" THEN ParseOk(JBool(FALSE), i + 1)
    ELSE IF IsStrLit(t[i]) THEN ParseOk(JStr(t[i]), i + 1)
    ELSE IF t[i] = "{"
         THEN LET j == SkipWs(t, i + 1)
              IN  IF j <= Len(t) /\ t[j] = "}"
                  THEN ParseOk(JObj([x \in {} |-> JNull]), j + 1)
                  ELSE ParseMembers(t, j, [x \in {} |-> JNull])
    ELSE ParseFail

\* key : value ( , key : value )* }   (a repeated key keeps the last value)
ParseMembers(t, i, m) ==
    IF ~(i <= Len(t) /\ IsStrLit(t[i])) THEN ParseFail
    ELSE LET c == SkipWs(t, i + 1)
         IN  IF ~(c <= Len(t) /\ t[c] = ":") THEN ParseFail
             ELSE LET r == ParseValue(t, SkipWs(t, c + 1))
                  IN  IF ~r.ok THEN ParseFail
                      ELSE LET m2 == JInsert(m, t[i], r.val)
                               e == SkipWs(t, r.next)
                           IN  IF e <= Len(t) /\ t[e] = ","
                               THEN ParseMembers(t, SkipWs(t, e + 1), m2)
                               ELSE IF e <= Len(t) /\ t[e] = "}"
                                    THEN ParseOk(JObj(m2), e + 1)
                                    ELSE ParseFail

\* serde_json::from_str::<Value>: one value, then only whitespace.
from_str(t) ==
    LET r == ParseValue(t, SkipWs(t, 1))
    IN  IF r.ok /\ SkipWs(t, r.next) = Len(t) + 1 THEN Some(r.val) ELSE None

\* Value's Index<&str>: Null unless an object holding the key.
JIndex(v, key) == IF v.k = "obj" /\ key \in DOMAIN v.m THEN v.m[key] ELSE JNull
as_bool(v) == IF v.k = "bool" THEN Some(v.b) ELSE None
as_str(v) == IF v.k = "str" THEN Some(StrText(v.s)) ELSE None

\* the content as send_chat_message computes it (the error text when success is
\* not true): what the streaming command would keep had it shared that code
StreamContentErrorText(full_output) ==
    LET parsed == from_str(full_output)
    IN  IF IsSome(parsed)
        THEN LET json == Unwrap(parsed)
             IN  IF as_bool(JIndex(json, "\"success\"")) = Some(TRUE)
                 THEN LET r == as_str(JIndex(JIndex(json, "\"data\""), "\"response\""))
                      IN  IF IsSome(r) THEN Unwrap(r) ELSE full_output
                 ELSE LET e == as_str(JIndex(json, "\"error\""))
                      IN  IF IsSome(e) THEN Unwrap(e) ELSE <<"Unknown error">>
        ELSE full_output

\* send_chat_message_stream: the content kept in chat history.
StreamContent(full_output) ==
    LET parsed == from_str(full_output)
    IN  IF IsSome(parsed)
        THEN LET json == Unwrap(parsed)
             IN  IF as_bool(JIndex(json, "\"success\"")) = Some(TRUE)
                 THEN LET r == as_str(JIndex(JIndex(json, "\"data\""), "\"response\""))
                      IN  IF IsSome(r) THEN Unwrap(r) ELSE full_output
                 ELSE full_output
        ELSE full_output


-----------------------------------------------------------------------------
(* Sessions and credentials *)

\* SshCredentials: the host stands for host, port and username; auth says
\* which of private_key / password is present.
Creds == { [host |-> "hostA", auth |-> "key"],
           [host |-> "hostB", auth |-> "password"],
           [host |-> "hostC", auth |-> "none"] }

\* A Session handle: its identity and the credentials it was established with.
NewSession(c) == [id |-> nSessions + 1, cred |-> c]

\* is_session_alive: keepalive_send succeeds iff the transport is up.
is_session_alive(sess) == sess.id \in transportUp

\* establish_ssh without its final sess.authenticated() check
establish_ssh_unchecked(c) ==
    {"Connection failed", "handshake failed", "Ok"}
    \cup (IF c.auth = "key" THEN {"Key authentication failed"}
          ELSE IF c.auth = "password" THEN {"Password failed"}
          ELSE {})

\* establish_ssh: the outcomes the network and the server can produce for c.
establish_ssh(c) ==
    {"Connection failed", "handshake failed"}
    \cup (IF c.auth = "key" THEN {"Key authentication failed", "Ok"}
          ELSE IF c.auth = "password" THEN {"Password failed", "Ok"}
          ELSE {"Authentication failed"})

\* Dropping a Session handle disconnects it.
Dropped(o) == IF IsSome(o) THEN {Unwrap(o).id} ELSE {}

-----------------------------------------------------------------------------
(* Command results.  A finished command is [stdout, stderr, exit]: two byte *)
(* buffers and the exit status, None when exit_status() fails (remote) or   *)
(* the process was killed by a signal (local).                              *)

\* execute_nexus_bridge on a channel: stdout, read strictly as UTF-8.
RemoteNexusOutput(r) == read_to_string(r.stdout)

\* execute_shell_bridge on a channel.
RemoteShellOutput(r) ==
    LET stdout == read_to_string(r.stdout)
        stderr == read_to_string(r.stderr)
        exit_code == IF IsSome(r.exit) THEN Unwrap(r.exit) ELSE -1
    IN  IF ~stdout.ok THEN stdout
        ELSE IF ~stderr.ok THEN stderr
        ELSE IF exit_code # 0 /\ stderr.val # <<>>
             THEN Ok(stdout.val \o <<"\n">> \o stderr.val)
             ELSE Ok(stdout.val)

\* execute_nexus_bridge, local subprocess: stdout, decoded lossily.
LocalNexusOutput(r) == Ok(from_utf8_lossy(r.stdout))

\* execute_shell_bridge, local subprocess.
LocalShellOutput(r) ==
    LET stdout == from_utf8_lossy(r.stdout)
        stderr == from_utf8_lossy(r.stderr)
        success == r.exit = Some(0)
    IN  IF stderr # <<>> /\ ~success
        THEN Ok(stdout \o <<"\n">> \o stderr)
        ELSE Ok(stdout)

RemoteOutput(kind, r) ==
    IF kind = "shell" THEN RemoteShellOutput(r) ELSE RemoteNexusOutput(r)
LocalOutput(kind, r) ==
    IF kind = "shell" THEN LocalShellOutput(r) ELSE LocalNexusOutput(r)

-----------------------------------------------------------------------------
(* Process state *)

InitLoc == [ kind |-> "none",        \* which bridge: "nexus" or "shell"
             ret |-> "idle",         \* where execute_*_bridge returns to
             creds |-> None,         \* connect_remote: creds
             sess |-> None,          \* sess / new_sess, not yet stored
             res |-> Pending,        \* the result of execute_*_bridge
             message_id |-> 0,       \* send_chat_message_stream: message_id
             full_output |-> <<>>,   \* send_chat_message_stream: full_output
             call |-> 0,             \* the number of the call (seeds its uuids)
             arg |-> <<>>,           \* the command's argument (path, id, task, message)
             user_msg |-> None,      \* send_chat_message: user_msg, not yet pushed
             has_ssh |-> FALSE,      \* get_nexus_status: has_ssh
             status |-> None ]       \* get_nexus_status: the NexusStatus being built

\* What a command did, recorded as it runs (read only by the properties).
InitLog == [ op |-> "none",
             saw |-> None,           \* the stored session found under the lock
             locked |-> FALSE,       \* the bridge took the session lock
             probes |-> <<>>,        \* keepalive probes: [id, ok]
             connects |-> <<>>,      \* establish_ssh attempts: the credentials
             connectOk |-> FALSE,
             chans |-> <<>>,         \* channels opened: [id, stored]
             chanFailed |-> FALSE,
             locals |-> 0,           \* local subprocesses run
             execs |-> 0,            \* execute_nexus_bridge calls made
             runs |-> <<>>,          \* commands run to completion: [path, r]
             reads |-> <<>>,         \* streaming: the non-empty reads, as bytes
             readErr |-> FALSE,      \* streaming: a read failed
             message_id |-> 0,       \* streaming: the caller's message_id
             streamSaw |-> <<>>,     \* streaming: the stored session it found
             execRes |-> Pending,    \* what execute_*_bridge returned
             credsSeen |-> <<>>,     \* the stored credentials the bridge found
             sessAtUnlock |-> <<>>,  \* the stored session when the lock was released
             credsAtUnlock |-> <<>>, \* the stored credentials at that moment
             sessAtRet |-> None,
             credsAtRet |-> None,
             histAtRet |-> <<>>,
             heldBy |-> <<>>,        \* the session lock's owner when the command ended
             via |-> <<>>,           \* get_nexus_status: the path that gave the version
             res |-> Pending ]

IdleLoc(p) == loc[p] = InitLoc
AllIdle == \A p \in Procs : pc[p] = "idle"

Init ==
    /\ ssh_session = None
    /\ current_project = None
    /\ active_swarms = <<>>
    /\ now = 0
    /\ replies = <<>>
    /\ severed = {}
    /\ ssh_credentials = None
    /\ chat_history = <<>>
    /\ session_lock = None
    /\ creds_lock = None
    /\ events = <<>>
    /\ transportUp = {}
    /\ nSessions = 0
    /\ nCalls = 0
    /\ nReads = 0
    /\ pc = [p \in Procs |-> "idle"]
    /\ loc = [p \in Procs |-> InitLoc]
    /\ log = [p \in Procs |-> InitLog]

\* A command starts: a fresh frame and a fresh record.
Begin(p, op, first, l) ==
    /\ pc[p] = "idle"
    /\ nCalls < MaxCalls
    /\ nCalls' = nCalls + 1
    /\ pc' = [pc EXCEPT ![p] = first]
    /\ loc' = [loc EXCEPT ![p] = Merge(InitLoc, l)]
    /\ log' = [log EXCEPT ![p] =
                 Merge(InitLog, [op |-> op, message_id |-> Merge(InitLoc, l).message_id])]

\* A top-level command returns result r; the state it leaves is recorded.
Return(p, r, l) ==
    /\ pc' = [pc EXCEPT ![p] = "idle"]
    /\ loc' = [loc EXCEPT ![p] = InitLoc]
    /\ log' = [log EXCEPT ![p] =
                 Merge(Merge(@, l), [res |-> r, sessAtRet |-> ssh_session',
                                     credsAtRet |-> ssh_credentials',
                                     histAtRet |-> chat_history'])]

-----------------------------------------------------------------------------
(* The network: a session's transport is severed. *)

Sever ==
    /\ \E id \in transportUp : /\ transportUp' = transportUp \ {id}
                               /\ severed' = severed \cup {id}
    /\ UNCHANGED <<current_project, active_swarms, now, replies>>
    /\ UNCHANGED <<ssh_session, ssh_credentials, chat_history, session_lock,
                   creds_lock, events, nSessions, nCalls, nReads, pc, loc, log>>

-----------------------------------------------------------------------------
(* connect_remote *)

connect_remote_call(p, c) ==
    /\ Begin(p, "connect_remote", "cr_establish", [creds |-> Some(c)])
    /\ UNCHANGED <<current_project, active_swarms, severed, now, replies>>
    /\ UNCHANGED <<ssh_session, ssh_credentials, chat_history, session_lock,
                   creds_lock, events, transportUp, nSessions, nReads>>

\* a connect that stores the credentials before it has established the session
connect_remote_establish_storing(p) ==
    /\ pc[p] = "cr_establish"
    /\ UNCHANGED <<current_project, active_swarms, severed, now, replies>>
    /\ ssh_credentials' = loc[p].creds
    /\ \E o \in establish_ssh(Unwrap(loc[p].creds)) :
         IF o = "Ok"
         THEN /\ nSessions < MaxSessions
              /\ nSessions' = nSessions + 1
              /\ transportUp' = transportUp \cup {nSessions + 1}
              /\ pc' = [pc EXCEPT ![p] = "cr_store_session"]
              /\ loc' = [loc EXCEPT ![p] =
                           Merge(@, [sess |-> Some(NewSession(Unwrap(loc[p].creds)))])]
              /\ log' = [log EXCEPT ![p] =
                           Merge(@, [connects |-> Append(@.connects, Unwrap(loc[p].creds)),
                                     connectOk |-> TRUE])]
              /\ UNCHANGED <<ssh_session, chat_history>>
         ELSE /\ UNCHANGED <<nSessions, transportUp, ssh_session, chat_history>>
              /\ Return(p, Err(o), [connects |-> Append(log[p].connects,
                                                        Unwrap(loc[p].creds))])
    /\ UNCHANGED <<session_lock, creds_lock, events, nCalls, nReads>>

\* let sess = establish_ssh(&creds)?;
connect_remote_establish(p) ==
    /\ pc[p] = "cr_establish"
    /\ UNCHANGED <<current_project, active_swarms, severed, now, replies>>
    /\ \E o \in establish_ssh(Unwrap(loc[p].creds)) :
         IF o = "Ok"
         THEN /\ nSessions < MaxSessions
              /\ nSessions' = nSessions + 1
              /\ transportUp' = transportUp \cup {nSessions + 1}
              /\ pc' = [pc EXCEPT ![p] = "cr_store_session"]
              /\ loc' = [loc EXCEPT ![p] =
                           Merge(@, [sess |-> Some(NewSession(Unwrap(loc[p].creds)))])]
              /\ log' = [log EXCEPT ![p] =
                           Merge(@, [connects |-> Append(@.connects, Unwrap(loc[p].creds)),
                                     connectOk |-> TRUE])]
              /\ UNCHANGED <<ssh_session, ssh_credentials, chat_history>>
         ELSE /\ UNCHANGED <<nSessions, transportUp, ssh_session, ssh_credentials,
                             chat_history>>
              /\ Return(p, Err(o), [connects |-> Append(log[p].connects,
                                                        Unwrap(loc[p].creds))])
    /\ UNCHANGED <<session_lock, creds_lock, events, nCalls, nReads>>

\* *state.ssh_session.lock().await = Some(sess);
connect_remote_store_session(p) ==
    /\ pc[p] = "cr_store_session"
    /\ UNCHANGED <<current_project, active_swarms, severed, now, replies>>
    /\ session_lock = None
    /\ ssh_session' = loc[p].sess
    /\ transportUp' = transportUp \ Dropped(ssh_session)
    /\ pc' = [pc EXCEPT ![p] = "cr_store_creds"]
    /\ loc' = [loc EXCEPT ![p] = Merge(@, [sess |-> None])]
    /\ UNCHANGED <<ssh_credentials, chat_history, session_lock, creds_lock, events,
                   nSessions, nCalls, nReads, log>>

\* *state.ssh_credentials.lock().await = Some(creds); Ok(())
connect_remote_store_creds(p) ==
    /\ pc[p] = "cr_store_creds"
    /\ UNCHANGED <<current_project, active_swarms, severed, now, replies>>
    /\ creds_lock = None
    /\ ssh_credentials' = loc[p].creds
    /\ UNCHANGED <<ssh_session, chat_history>>
    /\ Return(p, Ok(<<>>), [op |-> "connect_remote"])
    /\ UNCHANGED <<session_lock, creds_lock, events, transportUp, nSessions,
                   nCalls, nReads>>


-----------------------------------------------------------------------------
(* execute_nexus_bridge and execute_shell_bridge (loc.kind tells which):   *)
(* the same steps, a different command line and output composition.        *)

\* The callee returns r to its caller: a command (which returns it as its
\* own result) or send_chat_message_stream's fallback.
ExFinish(p, r, l) ==
    IF loc[p].ret = "idle"
    THEN Return(p, r, [execRes |-> r] @@ l)
    ELSE /\ pc' = [pc EXCEPT ![p] = loc[p].ret]
         /\ loc' = [loc EXCEPT ![p] = Merge(@, [res |-> r, sess |-> None, creds |-> None])]
         /\ log' = [log EXCEPT ![p] = Merge(Merge(@, l), [execRes |-> r])]

\* scan_project (and every command that is one execute_nexus_bridge call)
scan_project_call(p) ==
    /\ Begin(p, "execute_nexus_bridge", "ex_lock", [kind |-> "nexus"])
    /\ UNCHANGED <<current_project, active_swarms, severed, now, replies>>
    /\ UNCHANGED <<ssh_session, ssh_credentials, chat_history, session_lock,
                   creds_lock, events, transportUp, nSessions, nReads>>

\* execute_terminal_command: one execute_shell_bridge call
execute_terminal_command_call(p) ==
    /\ Begin(p, "execute_shell_bridge", "ex_lock", [kind |-> "shell"])
    /\ UNCHANGED <<current_project, active_swarms, severed, now, replies>>
    /\ UNCHANGED <<ssh_session, ssh_credentials, chat_history, session_lock,
                   creds_lock, events, transportUp, nSessions, nReads>>

\* *lock = None;  -- what the slot holds after a failed probe
StaleSlotKept(slot) == slot
AfterDeadProbe(slot) == None

\* let mut lock = state.ssh_session.lock().await;
\* if let Some(sess) = lock.as_ref() { if is_session_alive(sess) {..} *lock = None; }
execute_bridge_lock(p) ==
    /\ pc[p] = "ex_lock"
    /\ UNCHANGED <<current_project, active_swarms, severed, now, replies>>
    /\ session_lock = None
    /\ session_lock' = Some(p)
    /\ IF IsSome(ssh_session)
       THEN IF is_session_alive(Unwrap(ssh_session))
            THEN /\ pc' = [pc EXCEPT ![p] = "ex_chan"]
                 /\ UNCHANGED <<ssh_session, transportUp>>
            ELSE /\ ssh_session' = AfterDeadProbe(ssh_session)
                 /\ transportUp' = transportUp \ Dropped(ssh_session)
                 /\ pc' = [pc EXCEPT ![p] = "ex_creds"]
       ELSE /\ pc' = [pc EXCEPT ![p] = "ex_creds"]
            /\ UNCHANGED <<ssh_session, transportUp>>
    /\ log' = [log EXCEPT ![p] =
                 Merge(@, [saw |-> ssh_session, locked |-> TRUE,
                           probes |-> IF IsSome(ssh_session)
                                      THEN Append(@.probes,
                                             [id |-> Unwrap(ssh_session).id,
                                              ok |-> is_session_alive(Unwrap(ssh_session))])
                                      ELSE @.probes])]
    /\ UNCHANGED <<ssh_credentials, chat_history, creds_lock, events, nSessions,
                   nCalls, nReads, loc>>

ChannelErrors == {"channel_session failed", "exec failed"}

\* what the bridge records when it lets go of the session lock
Unlocked(p) == [sessAtUnlock |-> Append(log[p].sessAtUnlock, ssh_session'),
                credsAtUnlock |-> Append(log[p].credsAtUnlock, ssh_credentials')]

\* the reused session: channel_session()?, exec()?, read_to_string()?, return Ok(..)
execute_bridge_channel(p, R) ==
    /\ pc[p] = "ex_chan"
    /\ UNCHANGED <<current_project, active_swarms, severed, now, replies>>
    /\ session_lock' = None
    /\ UNCHANGED <<ssh_session, ssh_credentials, chat_history, creds_lock, events,
                   transportUp, nSessions, nCalls, nReads>>
    /\ LET chan == [id |-> Unwrap(ssh_session).id, stored |-> TRUE]
       IN  \/ \E e \in ChannelErrors :
                ExFinish(p, Err(e),
                         [chans |-> Append(log[p].chans, chan), chanFailed |-> TRUE]
                         @@ Unlocked(p))
           \/ /\ is_session_alive(Unwrap(ssh_session))
              /\ \E r \in R :
                   ExFinish(p, RemoteOutput(loc[p].kind, r),
                            [chans |-> Append(log[p].chans, chan),
                             chanFailed |-> ~RemoteOutput(loc[p].kind, r).ok,
                             runs |-> Append(log[p].runs, [path |-> "session", r |-> r])]
                            @@ Unlocked(p))

\* if let Some(ref c) = *creds { if let Ok(new_sess) = establish_ssh(c) {..} }
\* -- whether the bridge tries to reconnect
NeverReconnect(creds) == FALSE
TriesReconnect(creds) == IsSome(creds)

\* let creds = state.ssh_credentials.lock().await; if let Some(ref c) = *creds {..}
execute_bridge_creds(p) ==
    /\ pc[p] = "ex_creds"
    /\ UNCHANGED <<current_project, active_swarms, severed, now, replies>>
    /\ creds_lock = None
    /\ UNCHANGED <<ssh_session, ssh_credentials, chat_history, events, transportUp,
                   nSessions, nCalls, nReads>>
    /\ IF TriesReconnect(ssh_credentials)
       THEN /\ creds_lock' = Some(p)
            /\ session_lock' = session_lock
            /\ pc' = [pc EXCEPT ![p] = "ex_establish"]
            /\ loc' = [loc EXCEPT ![p] = Merge(@, [creds |-> ssh_credentials])]
            /\ log' = [log EXCEPT ![p] =
                         Merge(@, [credsSeen |-> Append(@.credsSeen, ssh_credentials)])]
       ELSE /\ session_lock' = None
            /\ creds_lock' = creds_lock
            /\ pc' = [pc EXCEPT ![p] = "ex_local"]
            /\ loc' = loc
            /\ log' = [log EXCEPT ![p] =
                         Merge(@, [credsSeen |-> Append(@.credsSeen, ssh_credentials)]
                                  @@ Unlocked(p))]

\* if let Ok(new_sess) = establish_ssh(c) {..}
execute_bridge_establish(p) ==
    /\ pc[p] = "ex_establish"
    /\ UNCHANGED <<current_project, active_swarms, severed, now, replies>>
    /\ UNCHANGED <<ssh_session, ssh_credentials, chat_history, events, nCalls, nReads>>
    /\ \E o \in establish_ssh(Unwrap(loc[p].creds)) :
         IF o = "Ok"
         THEN /\ nSessions < MaxSessions
              /\ nSessions' = nSessions + 1
              /\ transportUp' = transportUp \cup {nSessions + 1}
              /\ pc' = [pc EXCEPT ![p] = "ex_chan_new"]
              /\ loc' = [loc EXCEPT ![p] =
                           Merge(@, [sess |-> Some(NewSession(Unwrap(loc[p].creds)))])]
              /\ log' = [log EXCEPT ![p] =
                           Merge(@, [connects |-> Append(@.connects, Unwrap(loc[p].creds)),
                                     connectOk |-> TRUE])]
              /\ UNCHANGED <<session_lock, creds_lock>>
         ELSE /\ session_lock' = None
              /\ creds_lock' = None
              /\ pc' = [pc EXCEPT ![p] = "ex_local"]
              /\ loc' = [loc EXCEPT ![p] = Merge(@, [creds |-> None])]
              /\ log' = [log EXCEPT ![p] =
                           Merge(@, [connects |-> Append(@.connects, Unwrap(loc[p].creds))]
                                    @@ Unlocked(p))]
              /\ UNCHANGED <<nSessions, transportUp>>

\* the new session: channel_session()?, exec()?, read_to_string()?,
\* *lock = Some(new_sess); return Ok(..)
execute_bridge_channel_new(p, R) ==
    /\ pc[p] = "ex_chan_new"
    /\ UNCHANGED <<current_project, active_swarms, severed, now, replies>>
    /\ session_lock' = None
    /\ creds_lock' = None
    /\ UNCHANGED <<ssh_credentials, chat_history, events, nSessions, nCalls, nReads>>
    /\ LET new_sess == Unwrap(loc[p].sess)
           chan == [id |-> new_sess.id, stored |-> FALSE]
       IN  \/ /\ ssh_session' = ssh_session
              /\ transportUp' = transportUp \ {new_sess.id}
              /\ \E e \in ChannelErrors :
                   ExFinish(p, Err(e),
                            [chans |-> Append(log[p].chans, chan), chanFailed |-> TRUE]
                            @@ Unlocked(p))
           \/ /\ is_session_alive(new_sess)
              /\ \E r \in R :
                   LET out == RemoteOutput(loc[p].kind, r)
                   IN  /\ ssh_session' = IF out.ok THEN Some(new_sess) ELSE ssh_session
                       /\ transportUp' = IF out.ok THEN transportUp
                                         ELSE transportUp \ {new_sess.id}
                       /\ ExFinish(p, out,
                                   [chans |-> Append(log[p].chans, chan),
                                    chanFailed |-> ~out.ok,
                                    runs |-> Append(log[p].runs,
                                                    [path |-> "reconnected", r |-> r])]
                                   @@ Unlocked(p))

\* a local step that tries again when the subprocess cannot be spawned
execute_bridge_local_retry(p, R) ==
    /\ pc[p] = "ex_local"
    /\ UNCHANGED <<ssh_session, ssh_credentials, chat_history, session_lock,
                   creds_lock, events, transportUp, nSessions, nCalls, nReads,
                   current_project, active_swarms, severed, now, replies>>
    /\ \/ /\ log' = [log EXCEPT ![p] = Merge(@, [locals |-> @.locals + 1])]
          /\ UNCHANGED <<pc, loc>>
       \/ \E r \in R :
            ExFinish(p, LocalOutput(loc[p].kind, r),
                     [locals |-> log[p].locals + 1,
                      runs |-> Append(log[p].runs, [path |-> "local", r |-> r])])

\* Path B: TokioCommand::new(..).output().await.map_err("Local execution failed")?
execute_bridge_local(p, R) ==
    /\ pc[p] = "ex_local"
    /\ UNCHANGED <<current_project, active_swarms, severed, now, replies>>
    /\ UNCHANGED <<ssh_session, ssh_credentials, chat_history, session_lock,
                   creds_lock, events, transportUp, nSessions, nCalls, nReads>>
    /\ \/ ExFinish(p, Err("Local execution failed: spawn error"),
                   [locals |-> log[p].locals + 1])
       \/ \E r \in R :
            ExFinish(p, LocalOutput(loc[p].kind, r),
                     [locals |-> log[p].locals + 1,
                      runs |-> Append(log[p].runs, [path |-> "local", r |-> r])])

-----------------------------------------------------------------------------
(* send_chat_message_stream *)

Event(name, message_id, data) == [name |-> name, messageId |-> message_id, data |-> data]

\* ChatMessageRecord; a uuid is a fresh id, written as a negative number.
Record(id, role, content, timestamp) ==
    [id |-> id, role |-> role, content |-> content, timestamp |-> timestamp]

\* the call, and: state.chat_history.lock().await.push(user_msg);
send_chat_message_stream_call(p) ==
    /\ Begin(p, "send_chat_message_stream", "st_lock", [message_id |-> nCalls + 1])
    /\ UNCHANGED <<current_project, active_swarms, severed, now, replies>>
    /\ chat_history' = Append(chat_history, Record(0 - (nCalls + 1), "user", <<"message">>, now))
    /\ UNCHANGED <<ssh_session, ssh_credentials, session_lock, creds_lock, events,
                   transportUp, nSessions, nReads>>

\* let lock = state.ssh_session.lock().await; if let Some(sess) = lock.as_ref() {..}
\* drop(lock); execute_nexus_bridge(&["--json", "chat", &message], &state)
send_chat_message_stream_lock(p) ==
    /\ pc[p] = "st_lock"
    /\ UNCHANGED <<current_project, active_swarms, severed, now, replies>>
    /\ session_lock = None
    /\ IF IsSome(ssh_session)
       THEN /\ session_lock' = Some(p)
            /\ pc' = [pc EXCEPT ![p] = "st_chan"]
            /\ loc' = loc
            /\ log' = [log EXCEPT ![p] = Merge(@, [streamSaw |-> <<ssh_session>>])]
       ELSE /\ session_lock' = None
            /\ pc' = [pc EXCEPT ![p] = "ex_lock"]
            /\ loc' = [loc EXCEPT ![p] = Merge(@, [kind |-> "nexus", ret |-> "st_fb"])]
            /\ log' = [log EXCEPT ![p] =
                         Merge(@, [streamSaw |-> <<ssh_session>>, execs |-> @.execs + 1])]
    /\ UNCHANGED <<ssh_session, ssh_credentials, chat_history, creds_lock, events,
                   transportUp, nSessions, nCalls, nReads>>

\* let mut channel = sess.channel_session()?; channel.exec(&cmd)?;
send_chat_message_stream_channel(p) ==
    /\ pc[p] = "st_chan"
    /\ UNCHANGED <<current_project, active_swarms, severed, now, replies>>
    /\ UNCHANGED <<ssh_session, ssh_credentials, chat_history, creds_lock, events,
                   transportUp, nSessions, nCalls, nReads>>
    /\ LET chan == [id |-> Unwrap(ssh_session).id, stored |-> TRUE]
       IN  \/ /\ session_lock' = None
              /\ \E e \in ChannelErrors :
                   Return(p, Err(e), [chans |-> Append(log[p].chans, chan),
                                      chanFailed |-> TRUE])
           \/ /\ is_session_alive(Unwrap(ssh_session))
              /\ session_lock' = session_lock
              /\ pc' = [pc EXCEPT ![p] = "st_read"]
              /\ loc' = loc
              /\ log' = [log EXCEPT ![p] = Merge(@, [chans |-> Append(@.chans, chan)])]

\* Err(e) => { emit chat-error; break; }  -- where the loop goes after a read error
ReadErrorContinues == "st_read"
AfterReadError == "st_done"

\* loop { match channel.read(&mut buf) { Ok(0) => break, Ok(n) => .., Err(e) => .. } }
send_chat_message_stream_read(p, D) ==
    /\ pc[p] = "st_read"
    /\ UNCHANGED <<current_project, active_swarms, severed, now, replies>>
    /\ \/ /\ pc' = [pc EXCEPT ![p] = "st_done"]
          /\ UNCHANGED <<events, nReads, loc, log>>
       \/ /\ is_session_alive(Unwrap(ssh_session))
          /\ nReads < MaxReads
          /\ nReads' = nReads + 1
          /\ \E buf \in D :
               LET chunk == from_utf8_lossy(buf)
               IN  /\ loc' = [loc EXCEPT ![p] =
                                Merge(@, [full_output |-> @.full_output \o chunk])]
                   /\ events' = Append(events,
                                       Event("chat-chunk", loc[p].message_id, chunk))
                   /\ log' = [log EXCEPT ![p] = Merge(@, [reads |-> Append(@.reads, buf)])]
          /\ pc' = pc
       \/ /\ events' = Append(events,
                              Event("chat-error", loc[p].message_id, <<"read failed">>))
          /\ pc' = [pc EXCEPT ![p] = AfterReadError]
          /\ log' = [log EXCEPT ![p] = Merge(@, [readErr |-> TRUE])]
          /\ UNCHANGED <<nReads, loc>>
    /\ UNCHANGED <<ssh_session, ssh_credentials, chat_history, session_lock,
                   creds_lock, transportUp, nSessions, nCalls>>

\* channel.wait_close().ok(); the content; chat_history.push(assistant_msg);
\* emit chat-done; return Ok(())
send_chat_message_stream_done(p) ==
    /\ pc[p] = "st_done"
    /\ UNCHANGED <<current_project, active_swarms, severed, now, replies>>
    /\ chat_history' = Append(chat_history,
                              Record(loc[p].message_id, "assistant",
                                     StreamContent(loc[p].full_output), now))
    /\ events' = Append(events, Event("chat-done", loc[p].message_id, <<>>))
    /\ session_lock' = None
    /\ UNCHANGED <<ssh_session, ssh_credentials, creds_lock, transportUp, nSessions,
                   nCalls, nReads>>
    /\ Return(p, Ok(<<>>), [op |-> "send_chat_message_stream"])

\* the events of the fallback: the whole response as one chunk, then done
FallbackDoneOnly(message_id, response) == << Event("chat-done", message_id, <<>>) >>
FallbackEvents(message_id, response) ==
    << Event("chat-chunk", message_id, response), Event("chat-done", message_id, <<>>) >>

\* Fallback: let response = execute_nexus_bridge(..).await?; emit chunk; emit done
send_chat_message_stream_fallback(p) ==
    /\ pc[p] = "st_fb"
    /\ UNCHANGED <<current_project, active_swarms, severed, now, replies>>
    /\ UNCHANGED <<ssh_session, ssh_credentials, chat_history, session_lock,
                   creds_lock, transportUp, nSessions, nCalls, nReads>>
    /\ IF loc[p].res.ok
       THEN /\ events' = events \o FallbackEvents(loc[p].message_id, loc[p].res.val)
            /\ Return(p, Ok(<<>>), [op |-> "send_chat_message_stream"])
       ELSE /\ events' = events
            /\ Return(p, loc[p].res, [op |-> "send_chat_message_stream"])

-----------------------------------------------------------------------------
(* check_ssh_status and reconnect_ssh *)

\* Mutex::lock().await completes only when nobody holds the mutex
LockIgnored(lock) == TRUE
LockFree(lock) == lock = None

check_ssh_status_call(p) ==
    /\ Begin(p, "check_ssh_status", "cs_lock", [kind |-> "none"])
    /\ UNCHANGED <<ssh_session, ssh_credentials, chat_history, session_lock,
                   creds_lock, events, transportUp, nSessions, nReads,
                   current_project, active_swarms, severed, now, replies>>

\* a status check that clears the slot when it finds the session stale
check_ssh_status_lock_clearing(p) ==
    /\ pc[p] = "cs_lock"
    /\ LockFree(session_lock)
    /\ UNCHANGED <<ssh_credentials, chat_history, creds_lock, events,
                   nSessions, nCalls, nReads, current_project,
                   active_swarms, severed, now, replies>>
    /\ IF IsSome(ssh_session)
       THEN /\ session_lock' = session_lock
            /\ ssh_session' = IF is_session_alive(Unwrap(ssh_session))
                              THEN ssh_session ELSE None
            /\ transportUp' = transportUp
            /\ Return(p, Ok(IF is_session_alive(Unwrap(ssh_session))
                            THEN <<"connected">> ELSE <<"stale">>),
                      [saw |-> ssh_session,
                       probes |-> Append(log[p].probes,
                                         [id |-> Unwrap(ssh_session).id,
                                          ok |-> is_session_alive(Unwrap(ssh_session))])])
       ELSE /\ session_lock' = Some(p)
            /\ UNCHANGED <<ssh_session, transportUp>>
            /\ pc' = [pc EXCEPT ![p] = "cs_creds"]
            /\ loc' = loc
            /\ log' = [log EXCEPT ![p] = Merge(@, [saw |-> ssh_session])]

\* let lock = state.ssh_session.lock().await;
\* Some(sess) => if is_session_alive(sess) { "connected" } else { "stale" }
check_ssh_status_lock(p) ==
    /\ pc[p] = "cs_lock"
    /\ LockFree(session_lock)
    /\ UNCHANGED <<ssh_session, ssh_credentials, chat_history, creds_lock, events,
                   transportUp, nSessions, nCalls, nReads, current_project,
                   active_swarms, severed, now, replies>>
    /\ IF IsSome(ssh_session)
       THEN /\ session_lock' = session_lock
            /\ Return(p, Ok(IF is_session_alive(Unwrap(ssh_session))
                            THEN <<"connected">> ELSE <<"stale">>),
                      [saw |-> ssh_session,
                       probes |-> Append(log[p].probes,
                                         [id |-> Unwrap(ssh_session).id,
                                          ok |-> is_session_alive(Unwrap(ssh_session))])])
       ELSE /\ session_lock' = Some(p)
            /\ pc' = [pc EXCEPT ![p] = "cs_creds"]
            /\ loc' = loc
            /\ log' = [log EXCEPT ![p] = Merge(@, [saw |-> ssh_session])]

\* None => { let creds = state.ssh_credentials.lock().await;
\*           if creds.is_some() { "disconnected" } else { "unconfigured" } }
check_ssh_status_creds(p) ==
    /\ pc[p] = "cs_creds"
    /\ LockFree(creds_lock)
    /\ session_lock' = None
    /\ UNCHANGED <<ssh_session, ssh_credentials, chat_history, creds_lock, events,
                   transportUp, nSessions, nCalls, nReads, current_project,
                   active_swarms, severed, now, replies>>
    /\ Return(p, Ok(IF IsSome(ssh_credentials)
                    THEN <<"disconnected">> ELSE <<"unconfigured">>),
              [credsSeen |-> Append(log[p].credsSeen, ssh_credentials)])

reconnect_ssh_call(p) ==
    /\ Begin(p, "reconnect_ssh", "rc_creds", [kind |-> "none"])
    /\ UNCHANGED <<ssh_session, ssh_credentials, chat_history, session_lock,
                   creds_lock, events, transportUp, nSessions, nReads,
                   current_project, active_swarms, severed, now, replies>>

\* let creds = state.ssh_credentials.lock().await.clone();
\* None => Err("No stored SSH credentials ..")
reconnect_ssh_creds(p) ==
    /\ pc[p] = "rc_creds"
    /\ LockFree(creds_lock)
    /\ UNCHANGED <<ssh_session, ssh_credentials, chat_history, session_lock,
                   creds_lock, events, transportUp, nSessions, nCalls, nReads,
                   current_project, active_swarms, severed, now, replies>>
    /\ IF IsSome(ssh_credentials)
       THEN /\ pc' = [pc EXCEPT ![p] = "rc_establish"]
            /\ loc' = [loc EXCEPT ![p] = Merge(@, [creds |-> ssh_credentials])]
            /\ log' = [log EXCEPT ![p] =
                         Merge(@, [credsSeen |-> Append(@.credsSeen, ssh_credentials)])]
       ELSE Return(p, Err("No stored SSH credentials"),
                   [credsSeen |-> Append(log[p].credsSeen, ssh_credentials)])

\* a reconnect that drops the stored session when it fails to establish
reconnect_ssh_establish_clearing(p) ==
    /\ pc[p] = "rc_establish"
    /\ UNCHANGED <<ssh_credentials, chat_history, session_lock,
                   creds_lock, events, nCalls, nReads, current_project,
                   active_swarms, severed, now, replies>>
    /\ \E o \in establish_ssh(Unwrap(loc[p].creds)) :
         IF o = "Ok"
         THEN /\ nSessions < MaxSessions
              /\ nSessions' = nSessions + 1
              /\ transportUp' = transportUp \cup {nSessions + 1}
              /\ ssh_session' = ssh_session
              /\ pc' = [pc EXCEPT ![p] = "rc_store"]
              /\ loc' = [loc EXCEPT ![p] =
                           Merge(@, [sess |-> Some(NewSession(Unwrap(loc[p].creds)))])]
              /\ log' = [log EXCEPT ![p] =
                           Merge(@, [connects |-> Append(@.connects, Unwrap(loc[p].creds)),
                                     connectOk |-> TRUE])]
         ELSE /\ UNCHANGED nSessions
              /\ ssh_session' = None
              /\ transportUp' = transportUp \ Dropped(ssh_session)
              /\ Return(p, Err(o), [connects |-> Append(log[p].connects,
                                                        Unwrap(loc[p].creds))])

\* a reconnect that forgets the stored credentials when it fails
reconnect_ssh_establish_forgetting(p) ==
    /\ pc[p] = "rc_establish"
    /\ UNCHANGED <<ssh_session, chat_history, session_lock,
                   creds_lock, events, nCalls, nReads, current_project,
                   active_swarms, severed, now, replies>>
    /\ \E o \in establish_ssh(Unwrap(loc[p].creds)) :
         IF o = "Ok"
         THEN /\ nSessions < MaxSessions
              /\ nSessions' = nSessions + 1
              /\ transportUp' = transportUp \cup {nSessions + 1}
              /\ pc' = [pc EXCEPT ![p] = "rc_store"]
              /\ loc' = [loc EXCEPT ![p] =
                           Merge(@, [sess |-> Some(NewSession(Unwrap(loc[p].creds)))])]
              /\ log' = [log EXCEPT ![p] =
                           Merge(@, [connects |-> Append(@.connects, Unwrap(loc[p].creds)),
                                     connectOk |-> TRUE])]
              /\ ssh_credentials' = ssh_credentials
         ELSE /\ UNCHANGED <<nSessions, transportUp>>
              /\ ssh_credentials' = None
              /\ Return(p, Err(o), [connects |-> Append(log[p].connects,
                                                        Unwrap(loc[p].creds))])

\* Some(c) => { let sess = establish_ssh(&c)?;
reconnect_ssh_establish(p) ==
    /\ pc[p] = "rc_establish"
    /\ UNCHANGED <<ssh_session, ssh_credentials, chat_history, session_lock,
                   creds_lock, events, nCalls, nReads, current_project,
                   active_swarms, severed, now, replies>>
    /\ \E o \in establish_ssh(Unwrap(loc[p].creds)) :
         IF o = "Ok"
         THEN /\ nSessions < MaxSessions
              /\ nSessions' = nSessions + 1
              /\ transportUp' = transportUp \cup {nSessions + 1}
              /\ pc' = [pc EXCEPT ![p] = "rc_store"]
              /\ loc' = [loc EXCEPT ![p] =
                           Merge(@, [sess |-> Some(NewSession(Unwrap(loc[p].creds)))])]
              /\ log' = [log EXCEPT ![p] =
                           Merge(@, [connects |-> Append(@.connects, Unwrap(loc[p].creds)),
                                     connectOk |-> TRUE])]
         ELSE /\ UNCHANGED <<nSessions, transportUp>>
              /\ Return(p, Err(o), [connects |-> Append(log[p].connects,
                                                        Unwrap(loc[p].creds))])

\* *state.ssh_session.lock().await = Some(sess); Ok(()) }
reconnect_ssh_store(p) ==
    /\ pc[p] = "rc_store"
    /\ LockFree(session_lock)
    /\ ssh_session' = loc[p].sess
    /\ transportUp' = transportUp \ Dropped(ssh_session)
    /\ UNCHANGED <<ssh_credentials, chat_history, session_lock, creds_lock, events,
                   nSessions, nCalls, nReads, current_project, active_swarms, severed, now, replies>>
    /\ Return(p, Ok(<<>>), [op |-> "reconnect_ssh"])

-----------------------------------------------------------------------------
(* The state entries that are not the session: current project, task       *)
(* registry, chat history.  Their mutexes are taken for one statement (or   *)
(* to the end of a function that awaits nothing more), so no command is     *)
(* ever suspended while holding one.                                        *)

\* the owner of the mutex that guards an entry of NexusState, as seen by a
\* command about to lock it
GlobalLock(entry) == session_lock
EntryLock(entry) ==
    CASE entry = "ssh_session" -> session_lock
      [] entry = "ssh_credentials" -> creds_lock
      [] OTHER -> None

\* an id generator that hands out the same id again
UuidReused(n, k) == 0 - 1

\* uuid::Uuid::new_v4(): the k-th fresh id drawn by call number n
Uuid(n, k) == 0 - (1000 * k + n)

\* PathBuf::from(path) and PathBuf::to_string_lossy on it
PathBuf(path) == [os_str |-> path]
to_string_lossy(buf) == buf.os_str

\* serde_json::to_string of a ChatMessageRecord
to_string(rec) == <<"{", rec.id, rec.role, rec.content, rec.timestamp, "}">>

\* what a registry command records when it ends
Ended == [heldBy |-> <<session_lock>>]

set_current_project_call(p, path) ==
    /\ Begin(p, "set_current_project", "sp_lock", [arg |-> path])
    /\ UNCHANGED <<ssh_session, ssh_credentials, chat_history, session_lock,
                   creds_lock, events, transportUp, nSessions, nReads,
                   current_project, active_swarms, severed, now, replies>>

\* *state.current_project.lock().await = Some(PathBuf::from(path)); Ok(())
set_current_project_lock(p) ==
    /\ pc[p] = "sp_lock"
    /\ LockFree(EntryLock("current_project"))
    /\ current_project' = Some(PathBuf(loc[p].arg))
    /\ UNCHANGED <<ssh_session, ssh_credentials, chat_history, session_lock,
                   creds_lock, events, transportUp, nSessions, nCalls, nReads,
                   active_swarms, severed, now, replies>>
    /\ Return(p, Ok(<<>>), Ended)

get_current_project_call(p) ==
    /\ Begin(p, "get_current_project", "gp_lock", [kind |-> "none"])
    /\ UNCHANGED <<ssh_session, ssh_credentials, chat_history, session_lock,
                   creds_lock, events, transportUp, nSessions, nReads,
                   current_project, active_swarms, severed, now, replies>>

\* Ok(state.current_project.lock().await.as_ref().map(|p| p.to_string_lossy()..))
get_current_project_lock(p) ==
    /\ pc[p] = "gp_lock"
    /\ LockFree(EntryLock("current_project"))
    /\ UNCHANGED <<ssh_session, ssh_credentials, chat_history, session_lock,
                   creds_lock, events, transportUp, nSessions, nCalls, nReads,
                   current_project, active_swarms, severed, now, replies>>
    /\ Return(p, Ok(IF IsSome(current_project)
                    THEN Some(to_string_lossy(Unwrap(current_project)))
                    ELSE None), Ended)

get_chat_history_call(p) ==
    /\ Begin(p, "get_chat_history", "gh_lock", [kind |-> "none"])
    /\ UNCHANGED <<ssh_session, ssh_credentials, chat_history, session_lock,
                   creds_lock, events, transportUp, nSessions, nReads,
                   current_project, active_swarms, severed, now, replies>>

\* let history = state.chat_history.lock().await; Ok(history.iter().map(..).collect())
get_chat_history_lock(p) ==
    /\ pc[p] = "gh_lock"
    /\ LockFree(EntryLock("chat_history"))
    /\ UNCHANGED <<ssh_session, ssh_credentials, chat_history, session_lock,
                   creds_lock, events, transportUp, nSessions, nCalls, nReads,
                   current_project, active_swarms, severed, now, replies>>
    /\ Return(p, Ok([i \in 1..Len(chat_history) |-> to_string(chat_history[i])]), Ended)

clear_chat_history_call(p) ==
    /\ Begin(p, "clear_chat_history", "cl_lock", [kind |-> "none"])
    /\ UNCHANGED <<ssh_session, ssh_credentials, chat_history, session_lock,
                   creds_lock, events, transportUp, nSessions, nReads,
                   current_project, active_swarms, severed, now, replies>>

\* state.chat_history.lock().await.clear(); Ok(())
clear_chat_history_lock(p) ==
    /\ pc[p] = "cl_lock"
    /\ LockFree(EntryLock("chat_history"))
    /\ chat_history' = <<>>
    /\ UNCHANGED <<ssh_session, ssh_credentials, session_lock, creds_lock, events,
                   transportUp, nSessions, nCalls, nReads, current_project,
                   active_swarms, severed, now, replies>>
    /\ Return(p, Ok(<<>>), Ended)

start_swarm_task_call(p, task) ==
    /\ Begin(p, "start_swarm_task", "sw_insert",
             [arg |-> task, call |-> nCalls + 1, kind |-> "nexus", ret |-> "sw_ret"])
    /\ UNCHANGED <<ssh_session, ssh_credentials, chat_history, session_lock,
                   creds_lock, events, transportUp, nSessions, nReads,
                   current_project, active_swarms, severed, now, replies>>

\* let task_id = Uuid::new_v4(); state.active_swarms.lock().await.insert(task_id, task);
\* execute_nexus_bridge(&["--json", "chat", &task], &state)
start_swarm_task_insert(p) ==
    /\ pc[p] = "sw_insert"
    /\ LockFree(EntryLock("active_swarms"))
    /\ active_swarms' = JInsert(active_swarms, Uuid(loc[p].call, 0), loc[p].arg)
    /\ pc' = [pc EXCEPT ![p] = "ex_lock"]
    /\ log' = [log EXCEPT ![p] = Merge(@, [execs |-> @.execs + 1])]
    /\ UNCHANGED <<ssh_session, ssh_credentials, chat_history, session_lock,
                   creds_lock, events, transportUp, nSessions, nCalls, nReads,
                   current_project, severed, now, replies, loc>>

\* let output = execute_nexus_bridge(..).await?; Ok(json!({task_id, output}))
start_swarm_task_return(p) ==
    /\ pc[p] = "sw_ret"
    /\ UNCHANGED <<ssh_session, ssh_credentials, chat_history, session_lock,
                   creds_lock, events, transportUp, nSessions, nCalls, nReads,
                   current_project, active_swarms, severed, now, replies>>
    /\ Return(p, IF loc[p].res.ok
                 THEN Ok([task_id |-> Uuid(loc[p].call, 0), output |-> loc[p].res.val])
                 ELSE loc[p].res, Ended)

get_swarm_status_call(p, id) ==
    /\ Begin(p, "get_swarm_status", "gs_lock", [arg |-> id])
    /\ UNCHANGED <<ssh_session, ssh_credentials, chat_history, session_lock,
                   creds_lock, events, transportUp, nSessions, nReads,
                   current_project, active_swarms, severed, now, replies>>

\* let swarms = state.active_swarms.lock().await; match swarms.get(&id) {..}
get_swarm_status_lock(p) ==
    /\ pc[p] = "gs_lock"
    /\ LockFree(EntryLock("active_swarms"))
    /\ UNCHANGED <<ssh_session, ssh_credentials, chat_history, session_lock,
                   creds_lock, events, transportUp, nSessions, nCalls, nReads,
                   current_project, active_swarms, severed, now, replies>>
    /\ Return(p, Ok(IF loc[p].arg \in DOMAIN active_swarms
                    THEN [id |-> loc[p].arg, task |-> <<active_swarms[loc[p].arg]>>,
                          status |-> "completed"]
                    ELSE [id |-> loc[p].arg, task |-> <<>>, status |-> "not_found"]),
              Ended)

get_all_swarms_call(p) ==
    /\ Begin(p, "get_all_swarms", "ga_lock", [kind |-> "none"])
    /\ UNCHANGED <<ssh_session, ssh_credentials, chat_history, session_lock,
                   creds_lock, events, transportUp, nSessions, nReads,
                   current_project, active_swarms, severed, now, replies>>

\* let swarms = state.active_swarms.lock().await; Ok(swarms.keys().cloned().collect())
get_all_swarms_lock(p) ==
    /\ pc[p] = "ga_lock"
    /\ LockFree(EntryLock("active_swarms"))
    /\ UNCHANGED <<ssh_session, ssh_credentials, chat_history, session_lock,
                   creds_lock, events, transportUp, nSessions, nCalls, nReads,
                   current_project, active_swarms, severed, now, replies>>
    /\ Return(p, Ok(DOMAIN active_swarms), Ended)

-----------------------------------------------------------------------------
(* send_chat_message *)

\* the content send_chat_message keeps and returns
ChatContent(response) ==
    LET parsed == from_str(response)
    IN  IF IsSome(parsed)
        THEN LET json == Unwrap(parsed)
             IN  IF as_bool(JIndex(json, "\"success\"")) = Some(TRUE)
                 THEN LET r == as_str(JIndex(JIndex(json, "\"data\""), "\"response\""))
                      IN  IF IsSome(r) THEN Unwrap(r) ELSE response
                 ELSE LET e == as_str(JIndex(json, "\"error\""))
                      IN  IF IsSome(e) THEN Unwrap(e) ELSE <<"Unknown error">>
        ELSE response

\* a send_chat_message that keeps no assistant record
send_chat_message_return_silent(p) ==
    /\ pc[p] = "cm_ret"
    /\ UNCHANGED <<ssh_session, ssh_credentials, session_lock, creds_lock, events,
                   transportUp, nSessions, nCalls, nReads, current_project,
                   active_swarms, severed, now>>
    /\ chat_history' = chat_history
    /\ replies' = Append(replies, [message |-> loc[p].arg,
                                   res |-> IF loc[p].res.ok
                                           THEN Ok(ChatContent(loc[p].res.val))
                                           ELSE loc[p].res])
    /\ Return(p, IF loc[p].res.ok THEN Ok(ChatContent(loc[p].res.val)) ELSE loc[p].res,
              Ended)

\* let user_msg = ChatMessageRecord { id: Uuid::new_v4(), role: "user",
\*     content: message.clone(), timestamp: chrono::Utc::now(), .. };
send_chat_message_call(p, message) ==
    /\ Begin(p, "send_chat_message", "cm_push",
             [call |-> nCalls + 1, kind |-> "nexus", ret |-> "cm_ret", arg |-> message,
              user_msg |-> Some(Record(Uuid(nCalls + 1, 0), "user", <<message>>, now))])
    /\ UNCHANGED <<ssh_session, ssh_credentials, chat_history, session_lock,
                   creds_lock, events, transportUp, nSessions, nReads,
                   current_project, active_swarms, severed, now, replies>>

\* state.chat_history.lock().await.push(user_msg);
\* execute_nexus_bridge(&["--json", "chat", &message], &state)
send_chat_message_push(p) ==
    /\ pc[p] = "cm_push"
    /\ LockFree(EntryLock("chat_history"))
    /\ chat_history' = Append(chat_history, Unwrap(loc[p].user_msg))
    /\ pc' = [pc EXCEPT ![p] = "ex_lock"]
    /\ loc' = [loc EXCEPT ![p] = Merge(@, [user_msg |-> None])]
    /\ log' = [log EXCEPT ![p] = Merge(@, [execs |-> @.execs + 1])]
    /\ UNCHANGED <<ssh_session, ssh_credentials, session_lock, creds_lock, events,
                   transportUp, nSessions, nCalls, nReads, current_project,
                   active_swarms, severed, now, replies>>

\* let response = ..await?; the content; assistant_msg with timestamp now();
\* chat_history.push(assistant_msg); Ok(content)
send_chat_message_return(p) ==
    /\ pc[p] = "cm_ret"
    /\ UNCHANGED <<ssh_session, ssh_credentials, session_lock, creds_lock, events,
                   transportUp, nSessions, nCalls, nReads, current_project,
                   active_swarms, severed, now>>
    /\ IF loc[p].res.ok
       THEN /\ LockFree(EntryLock("chat_history"))
            /\ chat_history' = Append(chat_history,
                                      Record(Uuid(loc[p].call, 1), "assistant",
                                             ChatContent(loc[p].res.val), now))
            /\ replies' = Append(replies, [message |-> loc[p].arg,
                                           res |-> Ok(ChatContent(loc[p].res.val))])
            /\ Return(p, Ok(ChatContent(loc[p].res.val)), Ended)
       ELSE /\ chat_history' = chat_history
            /\ replies' = Append(replies, [message |-> loc[p].arg, res |-> loc[p].res])
            /\ Return(p, loc[p].res, Ended)

\* the clock advances
Tick ==
    /\ now < MaxClock
    /\ now' = now + 1
    /\ UNCHANGED <<ssh_session, ssh_credentials, chat_history, session_lock,
                   creds_lock, events, transportUp, nSessions, nCalls, nReads,
                   current_project, active_swarms, severed, replies, pc, loc, log>>

-----------------------------------------------------------------------------
(* Inputs *)

ROk == [stdout |-> <<"out">>, stderr |-> <<>>, exit |-> Some(0)]
RBoom == [stdout |-> <<"out">>, stderr |-> <<"boom">>, exit |-> Some(1)]

\* what a command run by the bridge may produce
BridgeResults == {ROk, RBoom}

\* what the chat command may produce for the fallback of the streaming call
ChatResults == { [stdout |-> <<"{", "\"success\"", ":", "true", "}">>,
                  stderr |-> <<>>, exit |-> Some(0)] }

\* what one read of the streaming channel may deliver (SpecStream)
StreamReads == { <<"a">>, <<"b">> }

\* what one read of the streaming channel may deliver (SpecChat): pieces of
\* Envelopes, whitespace, and the two halves of a two-byte character
ReadData == { <<"{", "\"success\"", ":", "true", ",">>,
              <<"\"data\"", ":", "{", "\"response\"", ":", "\"hi\"", "}", "}">>,
              <<"{", "\"success\"", ":", "false", ",">>,
              <<"\"data\"", ":", "{", "}", "}">>,
              <<"\"data\"", ":", "{", "\"response\"", ":", "true", "}", "}">>,
              <<"\"data\"", ":", "\"hi\"", "}">>,
              <<"\n">>,
              <<"C3">>,
              <<"A9">> }

-----------------------------------------------------------------------------
(* Specifications *)

\* the bridge: connect_remote and the two executors, run concurrently
Next ==
    \/ Sever
    \/ \E p \in Procs :
         \/ \E c \in Creds : connect_remote_call(p, c)
         \/ connect_remote_establish(p)
         \/ connect_remote_store_session(p)
         \/ connect_remote_store_creds(p)
         \/ scan_project_call(p)
         \/ execute_terminal_command_call(p)
         \/ execute_bridge_lock(p)
         \/ execute_bridge_channel(p, BridgeResults)
         \/ execute_bridge_creds(p)
         \/ execute_bridge_establish(p)
         \/ execute_bridge_channel_new(p, BridgeResults)
         \/ execute_bridge_local(p, BridgeResults)

Spec == Init /\ [][Next]_vars

\* The streaming chat, started in each configuration the bridge can be in when
\* a chat arrives: never connected; connected; disconnected (credentials
\* stored, the stale session cleared by an earlier execute_nexus_bridge).
StreamCred == [host |-> "hostA", auth |-> "key"]

InitStream ==
    /\ chat_history = <<>>
    /\ current_project = None
    /\ active_swarms = <<>>
    /\ now = 0
    /\ replies = <<>>
    /\ session_lock = None
    /\ creds_lock = None
    /\ events = <<>>
    /\ nCalls = 0
    /\ nReads = 0
    /\ pc = [p \in Procs |-> "idle"]
    /\ loc = [p \in Procs |-> InitLoc]
    /\ log = [p \in Procs |-> InitLog]
    /\ \/ /\ ssh_session = None
          /\ ssh_credentials = None
          /\ transportUp = {}
          /\ severed = {}
          /\ nSessions = 0
       \/ /\ ssh_session = Some([id |-> 1, cred |-> StreamCred])
          /\ ssh_credentials = Some(StreamCred)
          /\ transportUp = {1}
          /\ severed = {}
          /\ nSessions = 1
       \/ /\ ssh_session = None
          /\ ssh_credentials = Some(StreamCred)
          /\ transportUp = {}
          /\ severed = {1}
          /\ nSessions = 1

NextStream ==
    \/ Sever
    \/ \E p \in Procs :
         \/ /\ nCalls < MaxStreamCalls
            /\ connect_remote_call(p, StreamCred)
         \/ connect_remote_establish(p)
         \/ connect_remote_store_session(p)
         \/ connect_remote_store_creds(p)
         \/ /\ nCalls < MaxStreamCalls
            /\ send_chat_message_stream_call(p)
         \/ send_chat_message_stream_lock(p)
         \/ send_chat_message_stream_channel(p)
         \/ send_chat_message_stream_read(p, StreamReads)
         \/ send_chat_message_stream_done(p)
         \/ send_chat_message_stream_fallback(p)
         \/ execute_bridge_lock(p)
         \/ execute_bridge_channel(p, ChatResults)
         \/ execute_bridge_creds(p)
         \/ execute_bridge_establish(p)
         \/ execute_bridge_channel_new(p, ChatResults)
         \/ execute_bridge_local(p, ChatResults)

SpecStream == InitStream /\ [][NextStream]_vars

\* One chat client streaming over a connected session, with the reads drawn
\* from ReadData.
InitChat ==
    /\ ssh_session = Some([id |-> 1, cred |-> StreamCred])
    /\ current_project = None
    /\ active_swarms = <<>>
    /\ now = 0
    /\ replies = <<>>
    /\ severed = {}
    /\ ssh_credentials = Some(StreamCred)
    /\ chat_history = <<>>
    /\ session_lock = None
    /\ creds_lock = None
    /\ events = <<>>
    /\ transportUp = {1}
    /\ nSessions = 1
    /\ nCalls = 0
    /\ nReads = 0
    /\ pc = [p \in Procs |-> "idle"]
    /\ loc = [p \in Procs |-> InitLoc]
    /\ log = [p \in Procs |-> InitLog]

NextChat ==
    \/ Sever
    \/ /\ nCalls < MaxChats
       /\ send_chat_message_stream_call("p1")
    \/ send_chat_message_stream_lock("p1")
    \/ send_chat_message_stream_channel("p1")
    \/ send_chat_message_stream_read("p1", ReadData)
    \/ send_chat_message_stream_done("p1")

SpecChat == InitChat /\ [][NextChat]_vars

\* Every command that touches the session slot or the credentials, two at a
\* time, started in each configuration of InitStream.
SessionResults == {ROk}
SessionReads == { <<"a">> }

NextSession ==
    \/ Sever
    \/ \E p \in Procs :
         \/ /\ nCalls < MaxOps
            /\ \/ \E c \in Creds : connect_remote_call(p, c)
               \/ reconnect_ssh_call(p)
               \/ check_ssh_status_call(p)
               \/ scan_project_call(p)
               \/ execute_terminal_command_call(p)
               \/ send_chat_message_stream_call(p)
         \/ connect_remote_establish(p)
         \/ connect_remote_store_session(p)
         \/ connect_remote_store_creds(p)
         \/ reconnect_ssh_creds(p)
         \/ reconnect_ssh_establish(p)
         \/ reconnect_ssh_store(p)
         \/ check_ssh_status_lock(p)
         \/ check_ssh_status_creds(p)
         \/ send_chat_message_stream_lock(p)
         \/ send_chat_message_stream_channel(p)
         \/ send_chat_message_stream_read(p, SessionReads)
         \/ send_chat_message_stream_done(p)
         \/ send_chat_message_stream_fallback(p)
         \/ execute_bridge_lock(p)
         \/ execute_bridge_channel(p, SessionResults)
         \/ execute_bridge_creds(p)
         \/ execute_bridge_establish(p)
         \/ execute_bridge_channel_new(p, SessionResults)
         \/ execute_bridge_local(p, SessionResults)

SpecSession == InitStream /\ [][NextSession]_vars

\* One client running commands through the two executors, in each
\* configuration of InitStream, the command's outcome drawn from Runs: empty,
\* ASCII and non-UTF-8 output, exit status 0, 1 and unknown.
Runs == [ stdout : {<<>>, <<"out">>, <<"C3">>},
          stderr : {<<>>, <<"boom">>},
          exit : {Some(0), Some(1), None} ]

NextOutput ==
    \/ Sever
    \/ scan_project_call("p1")
    \/ execute_terminal_command_call("p1")
    \/ execute_bridge_lock("p1")
    \/ execute_bridge_channel("p1", Runs)
    \/ execute_bridge_creds("p1")
    \/ execute_bridge_establish("p1")
    \/ execute_bridge_channel_new("p1", Runs)
    \/ execute_bridge_local("p1", Runs)

SpecOutput == InitStream /\ [][NextOutput]_vars

\* The registry commands of one client ("p2") next to the commands of another
\* ("p1") that use the session, started with a session connected.  A command
\* that holds the session lock may stay in its remote I/O for ever; a registry
\* command that is ready to take its mutex is eventually scheduled.
Paths == {"/a", "/b"}
Tasks == {"t"}
SwarmIds == {Uuid(1, 0), Uuid(2, 0)}

RegistryStep(p) ==
    \/ set_current_project_lock(p)
    \/ get_current_project_lock(p)
    \/ get_chat_history_lock(p)
    \/ get_swarm_status_lock(p)
    \/ get_all_swarms_lock(p)

NextRegistry ==
    \/ Sever
    \/ /\ nCalls < MaxOps
       /\ \/ \E path \in Paths : set_current_project_call("p2", path)
          \/ get_current_project_call("p2")
          \/ get_chat_history_call("p2")
          \/ clear_chat_history_call("p2")
          \/ \E id \in SwarmIds : get_swarm_status_call("p2", id)
          \/ get_all_swarms_call("p2")
          \/ \E task \in Tasks : start_swarm_task_call("p1", task)
          \/ send_chat_message_call("p1", "message")
          \/ send_chat_message_stream_call("p1")
    \/ RegistryStep("p2")
    \/ clear_chat_history_lock("p2")
    \/ start_swarm_task_insert("p1")
    \/ start_swarm_task_return("p1")
    \/ send_chat_message_push("p1")
    \/ send_chat_message_return("p1")
    \/ send_chat_message_stream_lock("p1")
    \/ send_chat_message_stream_channel("p1")
    \/ send_chat_message_stream_read("p1", SessionReads)
    \/ send_chat_message_stream_done("p1")
    \/ send_chat_message_stream_fallback("p1")
    \/ execute_bridge_lock("p1")
    \/ execute_bridge_channel("p1", ChatResults)
    \/ execute_bridge_creds("p1")
    \/ execute_bridge_establish("p1")
    \/ execute_bridge_channel_new("p1", ChatResults)
    \/ execute_bridge_local("p1", ChatResults)

SpecRegistry ==
    InitChat /\ [][NextRegistry]_vars /\ \A p \in Procs : WF_vars(RegistryStep(p))

-----------------------------------------------------------------------------
(* Properties of execute_nexus_bridge / execute_shell_bridge (Spec) *)

\* an execute_*_bridge call of p has returned
BridgeReturned(p) == log[p].locked /\ log[p].execRes.done

\* the call found a stored session and its keepalive probe succeeded / failed
ProbedAlive(l) ==
    IsSome(l.saw) /\ l.probes = <<[id |-> Unwrap(l.saw).id, ok |-> TRUE]>>
ProbedDead(l) ==
    IsSome(l.saw) /\ l.probes = <<[id |-> Unwrap(l.saw).id, ok |-> FALSE]>>

\* C1: for every returned execute_*_bridge call: with a stored session whose
\* probe succeeded, the one channel is opened on that session, no connect is
\* attempted and no local subprocess is run; otherwise, with stored
\* credentials, exactly one connect is attempted, with those credentials;
\* otherwise no connect is attempted and the command runs once, locally.
C1_BridgePath ==
    \A p \in Procs :
      BridgeReturned(p) =>
        LET l == log[p]
        IN  IF ProbedAlive(l)
            THEN /\ l.chans = <<[id |-> Unwrap(l.saw).id, stored |-> TRUE]>>
                 /\ l.connects = <<>>
                 /\ l.locals = 0
            ELSE /\ Len(l.credsSeen) = 1
                 /\ IF IsSome(l.credsSeen[1])
                    THEN l.connects = <<Unwrap(l.credsSeen[1])>>
                    ELSE /\ l.connects = <<>>
                         /\ l.chans = <<>>
                         /\ l.locals = 1

\* C1 witness: one call has run on the live stored session, another has found
\* the session dead and made its one connect attempt.
C1_Witness ==
    \E p, q \in Procs :
      /\ BridgeReturned(p) /\ ProbedAlive(log[p]) /\ log[p].res.ok
      /\ BridgeReturned(q) /\ ProbedDead(log[q]) /\ Len(log[q].connects) = 1

\* C2: whenever the channel step fails on the SSH path, the call runs the
\* command as a local subprocess and returns that result.
C2_LocalAfterChannelFailure ==
    \A p \in Procs :
      (BridgeReturned(p) /\ log[p].chanFailed) =>
        (log[p].locals = 1 /\ log[p].execRes.val \notin {<<e>> : e \in ChannelErrors})

\* C3 (as claimed): a call that found the stored session dead and did not
\* reconnect leaves the stored session empty when it returns, has not changed
\* the stored credentials, and ran the command locally; a call whose reconnect
\* and command succeeded leaves the new session stored.
C3_LifecycleAtReturn ==
    \A p \in Procs :
      (BridgeReturned(p) /\ log[p].res.done /\ ProbedDead(log[p])) =>
        LET l == log[p]
        IN  /\ ~l.connectOk =>
                 /\ l.sessAtRet = None
                 /\ l.credsAtUnlock = l.credsSeen
                 /\ l.locals = 1
            /\ (l.connectOk /\ l.res.ok) =>
                 /\ IsSome(l.sessAtRet)
                 /\ l.chans = <<[id |-> Unwrap(l.sessAtRet).id, stored |-> FALSE]>>

\* C3 (amended): a call that found the stored session dead and did not
\* reconnect has left the stored session empty when it released the session
\* lock (before the local subprocess ran), has not changed the stored
\* credentials, and ran the command locally; a call whose reconnect and
\* command succeeded leaves the new session stored when it returns.
C3_LifecycleAtUnlock ==
    \A p \in Procs :
      (BridgeReturned(p) /\ log[p].res.done /\ ProbedDead(log[p])) =>
        LET l == log[p]
        IN  /\ ~l.connectOk =>
                 /\ l.sessAtUnlock = <<None>>
                 /\ l.credsAtUnlock = l.credsSeen
                 /\ l.locals = 1
            /\ (l.connectOk /\ l.res.ok) =>
                 /\ IsSome(l.sessAtRet)
                 /\ l.chans = <<[id |-> Unwrap(l.sessAtRet).id, stored |-> FALSE]>>
                 /\ l.sessAtUnlock = <<l.sessAtRet>>

\* C3 witness: a call found the session dead, its reconnect failed, and it
\* ran the command locally.
C3_Witness ==
    \E p \in Procs :
      /\ BridgeReturned(p) /\ log[p].res.done /\ ProbedDead(log[p])
      /\ Len(log[p].connects) = 1 /\ ~log[p].connectOk
      /\ log[p].locals = 1 /\ log[p].sessAtUnlock = <<None>>

\* C4 (its clause on quiescent states): when no command is running, a stored
\* session was established with the currently stored credentials.
C4_SessionMatchesCredentials ==
    (AllIdle /\ IsSome(ssh_session)) =>
        ssh_credentials = Some(Unwrap(ssh_session).cred)


-----------------------------------------------------------------------------
(* Properties of send_chat_message_stream (SpecStream, SpecChat) *)

IsStream(p) == log[p].op = "send_chat_message_stream"
StreamReturned(p) == IsStream(p) /\ log[p].res.done

\* the events emitted for one message id, in order
EventsOf(id) == SelectSeq(events, LAMBDA e : e.messageId = id)
ChunksOf(id) == SelectSeq(EventsOf(id), LAMBDA e : e.name = "chat-chunk")
CountOf(id, name) == Len(SelectSeq(EventsOf(id), LAMBDA e : e.name = name))

\* chunk* (error)? done
Grammar(es) ==
    /\ Len(es) >= 1
    /\ es[Len(es)].name = "chat-done"
    /\ \A i \in 1..(Len(es) - 1) :
         \/ es[i].name = "chat-chunk"
         \/ es[i].name = "chat-error" /\ i = Len(es) - 1

\* C5: every returned streaming call has produced, for its message id, an
\* event sequence chunk* (error)? done.
C5_EventGrammar ==
    \A p \in Procs : StreamReturned(p) => Grammar(EventsOf(log[p].message_id))

RECURSIVE Utf8Encode(_)
\* the bytes of a String
Utf8Encode(str) ==
    IF str = <<>> THEN <<>>
    ELSE (IF Head(str) = "U+00E9" THEN <<"C3", "A9">>
          ELSE IF Head(str) = "U+FFFD" THEN <<"EF", "BF", "BD">>
          ELSE <<Head(str)>>) \o Utf8Encode(Tail(str))

\* C6: the chunk events are the non-empty reads: one event per read, in read
\* order, each carrying exactly the bytes of that read.
C6_ChunksAreReads ==
    \A p \in Procs :
      IsStream(p) =>
        LET chunks == ChunksOf(log[p].message_id)
        IN  /\ Len(chunks) = Len(log[p].reads)
            /\ \A i \in 1..Len(chunks) : Utf8Encode(chunks[i].data) = log[p].reads[i]

\* C7: after a read error of the streaming loop there is exactly one
\* chat-error event for the message id, no chunk follows it and the loop has
\* ended; when the call has returned, the assistant record with the message
\* id is the record it appended to chat history and chat-done is the last
\* event.
C7_ReadError ==
    \A p \in Procs :
      (IsStream(p) /\ log[p].readErr) =>
        LET id == log[p].message_id
            es == EventsOf(id)
        IN  /\ CountOf(id, "chat-error") = 1
            /\ \A i, j \in 1..Len(es) :
                 (es[i].name = "chat-error" /\ i < j) => es[j].name = "chat-done"
            /\ pc[p] # "st_read"
            /\ StreamReturned(p) =>
                 /\ log[p].res.ok
                 /\ es[Len(es)].name = "chat-done"
                 /\ CountOf(id, "chat-done") = 1
                 /\ log[p].histAtRet # <<>>
                 /\ LET rec == log[p].histAtRet[Len(log[p].histAtRet)]
                    IN  rec.id = id /\ rec.role = "assistant"

\* C7 witness: a streaming call has returned after a chunk and a read error.
C7_Witness ==
    \E p \in Procs :
      /\ StreamReturned(p) /\ log[p].readErr /\ Len(log[p].reads) >= 1
      /\ CountOf(log[p].message_id, "chat-done") = 1

\* C8: a channel is opened on the stored session only after a keepalive probe
\* of that session succeeded in the same command.
C8_ProbeBeforeChannel ==
    \A p \in Procs :
      \A i \in 1..Len(log[p].chans) :
        log[p].chans[i].stored =>
          \E j \in 1..Len(log[p].probes) :
            log[p].probes[j] = [id |-> log[p].chans[i].id, ok |-> TRUE]

RECURSIVE Concat(_)
Concat(es) == IF es = <<>> THEN <<>> ELSE Head(es).data \o Concat(Tail(es))

\* data.response of the text, when the text is an Envelope with success = true
\* and a string data.response
EnvelopeResponse(text) ==
    LET v == from_str(text)
    IN  IF IsSome(v) /\ as_bool(JIndex(Unwrap(v), "\"success\"")) = Some(TRUE)
        THEN as_str(JIndex(JIndex(Unwrap(v), "\"data\""), "\"response\""))
        ELSE None

ExampleReads == << <<"{", "\"success\"", ":", "true", ",">>,
                   <<"\"data\"", ":", "{", "\"response\"", ":", "\"hi\"", "}", "}">> >>

\* C9: when a streaming call over the session has returned, the content of
\* the assistant record is data.response if the concatenation of the emitted
\* chunks is an Envelope with success = true and a string data.response, and
\* that concatenation otherwise; the two example reads give two chunks, one
\* done and the content "hi".
C9_PersistedContent ==
    \A p \in Procs :
      (StreamReturned(p) /\ log[p].res.ok /\ log[p].execs = 0) =>
        LET id == log[p].message_id
            text == Concat(ChunksOf(id))
            r == EnvelopeResponse(text)
            rec == log[p].histAtRet[Len(log[p].histAtRet)]
        IN  /\ rec.id = id
            /\ rec.content = IF IsSome(r) THEN Unwrap(r) ELSE text
            /\ log[p].reads = ExampleReads =>
                 /\ Len(ChunksOf(id)) = 2
                 /\ CountOf(id, "chat-done") = 1
                 /\ rec.content = <<"hi">>

\* C9 witness: the two example reads were streamed and "hi" was kept.
C9_Witness ==
    \E p \in Procs :
      /\ StreamReturned(p) /\ log[p].reads = ExampleReads
      /\ log[p].histAtRet[Len(log[p].histAtRet)].content = <<"hi">>

\* C10: a streaming call that found no stored session makes exactly one
\* execute_nexus_bridge call, not holding the session lock, and, when that
\* call succeeded, has emitted one chat-chunk with the whole result, then one
\* chat-done, and nothing else.
C10_Fallback ==
    \A p \in Procs :
      (IsStream(p) /\ log[p].streamSaw = <<None>>) =>
        /\ log[p].execs = 1
        /\ pc[p] = "ex_lock" => session_lock # Some(p)
        /\ (StreamReturned(p) /\ log[p].res.ok) =>
             /\ log[p].execRes.ok
             /\ EventsOf(log[p].message_id) =
                  << Event("chat-chunk", log[p].message_id, log[p].execRes.val),
                     Event("chat-done", log[p].message_id, <<>>) >>

\* C10 witness: a streaming call found no session and returned Ok.
C10_Witness ==
    \E p \in Procs :
      /\ StreamReturned(p) /\ log[p].streamSaw = <<None>> /\ log[p].res.ok
      /\ Len(EventsOf(log[p].message_id)) = 2


-----------------------------------------------------------------------------
(* Properties of the session slot (SpecSession, Spec) *)

\* p is using the session: from the probe or the lock that precedes its
\* channel until the channel is closed
OnChannel(p) == pc[p] \in {"ex_chan", "ex_chan_new", "st_chan", "st_read", "st_done"}

\* C11: while one command is on a channel of the session, no other command is
\* on a channel, and no step of another command probes a session, opens a
\* channel or replaces the stored session.
C11_OneChannel ==
    [][\A p \in Procs :
         OnChannel(p) =>
           /\ \A q \in Procs \ {p} :
                /\ ~OnChannel(q)
                /\ Len(log'[q].probes) <= Len(log[q].probes)
                /\ Len(log'[q].chans) <= Len(log[q].chans)
           /\ ssh_session' # ssh_session => pc'[p] # pc[p]]_vars

\* C11 witness: a streaming call has its channel open and has read from it
\* while another command waits to store a session.
C11_Witness ==
    \E p, q \in Procs :
      /\ pc[p] = "st_read" /\ Len(log[p].reads) >= 1
      /\ pc[q] \in {"rc_store", "cr_store_session"}


\* the sessions the bridge holds: the stored one and those a command has
\* established and not yet stored or dropped
HeldSessions ==
    Dropped(ssh_session) \cup UNION { Dropped(loc[p].sess) : p \in Procs }
LiveSessions == HeldSessions \cap transportUp

\* C12: the bridge holds at most one live session, in-flight sessions included.
C12_AtMostOneLiveSession == Cardinality(LiveSessions) <= 1

\* the steps during which a command blocks on the network or on a subprocess
InIO(p) ==
    pc[p] \in {"cr_establish", "rc_establish", "ex_establish", "ex_chan",
               "ex_chan_new", "ex_local", "st_chan", "st_read"}

\* C13: no command holds the credentials lock while it blocks on a connect, a
\* remote command or a local subprocess.
C13_NoCredentialsLockDuringIO ==
    \A p \in Procs : InIO(p) => creds_lock # Some(p)


-----------------------------------------------------------------------------
(* Properties of the registry entries (SpecRegistry) *)

RegistryOps == {"set_current_project", "get_current_project", "get_chat_history",
                "get_swarm_status", "get_all_swarms"}
RegistryWaits == {"sp_lock", "gp_lock", "gh_lock", "gs_lock", "ga_lock"}

\* C14: a registry command that is about to take its mutex completes, although
\* a command holding the session lock may stay in remote I/O for ever.
C14_NoStarvation ==
    \A q \in Procs : (pc[q] \in RegistryWaits) ~> (pc[q] = "idle")

\* C14 witness: a registry command completed while another command was
\* reading from its channel, holding the session lock.
C14_Witness ==
    \E p, q \in Procs :
      /\ pc[p] = "st_read" /\ session_lock = Some(p)
      /\ log[q].op \in RegistryOps /\ log[q].res.done
      /\ log[q].heldBy = <<Some(p)>>

\* C20: chat history only grows: every step leaves the history it found as a
\* prefix of the history it leaves.
C20_AppendOnly ==
    [][/\ Len(chat_history) <= Len(chat_history')
       /\ SubSeq(chat_history', 1, Len(chat_history)) = chat_history]_vars


-----------------------------------------------------------------------------
(* Properties of the executors' output (SpecOutput) *)

\* an execute_*_bridge call of kind k has returned after running its command
\* to completion
Ran(p, k) ==
    /\ log[p].op = (IF k = "shell" THEN "execute_shell_bridge" ELSE "execute_nexus_bridge")
    /\ log[p].res.done
    /\ Len(log[p].runs) = 1

\* the raw-shell composition of a finished command (an unknown exit status
\* counts as non-zero)
ShellComposition(r) ==
    IF r.exit # Some(0) /\ r.stderr # <<>>
    THEN from_utf8_lossy(r.stdout) \o <<"\n">> \o from_utf8_lossy(r.stderr)
    ELSE from_utf8_lossy(r.stdout)

\* C15: execute_shell_bridge returns stdout + "\n" + stderr exactly when the
\* exit code is non-zero and stderr is non-empty, stdout alone otherwise, on
\* each of the three paths.
C15_ShellComposition ==
    \A p \in Procs :
      Ran(p, "shell") => log[p].res = Ok(ShellComposition(log[p].runs[1].r))

\* C16: execute_nexus_bridge returns stdout, whatever the exit code and
\* stderr, on each of the three paths.
C16_StdoutOnly ==
    \A p \in Procs :
      Ran(p, "nexus") => log[p].res = Ok(from_utf8_lossy(log[p].runs[1].r.stdout))


-----------------------------------------------------------------------------
(* Termination of the executors (Spec) *)

IsExecute(p) == log[p].op \in {"execute_nexus_bridge", "execute_shell_bridge"}

\* how many steps an executor at this point has left, at most
StepsLeft(at) ==
    CASE at = "ex_lock" -> 5
      [] at = "ex_creds" -> 4
      [] at = "ex_establish" -> 3
      [] at = "ex_chan_new" -> 2
      [] at \in {"ex_chan", "ex_local"} -> 1
      [] OTHER -> 0

SpawnError == Err("Local execution failed: spawn error")

\* C17: an execute call makes at most one keepalive probe, one connect
\* attempt, one remote command and one local subprocess, every step of it
\* brings it closer to its return, and when the local subprocess cannot be
\* spawned it returns 'Local execution failed: ...' at once.
C17_OneFallback ==
    /\ [](\A p \in Procs :
            IsExecute(p) =>
              /\ Len(log[p].probes) <= 1
              /\ Len(log[p].connects) <= 1
              /\ Len(log[p].chans) <= 1
              /\ log[p].locals <= 1
              /\ Len(log[p].runs) <= 1)
    /\ [][\A p \in Procs :
            (IsExecute(p) /\ pc[p] # "idle" /\ <<pc[p], log[p]>> # <<pc'[p], log'[p]>>) =>
              /\ StepsLeft(pc'[p]) < StepsLeft(pc[p])
              /\ (pc[p] = "ex_local" /\ log'[p].runs = <<>>) =>
                   (pc'[p] = "idle" /\ log'[p].res = SpawnError)]_vars

\* C17 witness: a call probed a dead session, failed to connect, could not
\* spawn the local subprocess and returned that error.
C17_Witness ==
    \E p \in Procs :
      /\ IsExecute(p) /\ log[p].res = SpawnError
      /\ Len(log[p].probes) = 1 /\ Len(log[p].connects) = 1 /\ log[p].locals = 1


-----------------------------------------------------------------------------
(* Properties of connecting (SpecSession) *)

\* every session the bridge holds, stored or in flight
HeldSessionHandles ==
    {ssh_session[i] : i \in 1..Len(ssh_session)}
    \cup UNION { {loc[p].sess[i] : i \in 1..Len(loc[p].sess)} : p \in Procs }

C19_CredentialsFrame ==
    [][ssh_credentials' # ssh_credentials =>
         \E p \in Procs :
           /\ log[p].op = "connect_remote"
           /\ pc[p] = "cr_store_creds" /\ pc'[p] = "idle"
           /\ log'[p].res.ok
           /\ ssh_credentials' = Some(log[p].connects[1])]_vars

\* C19 witness: a reconnect_ssh failed and left the stored credentials as it
\* found them, after a connect_remote had stored them.
C19_Witness ==
    \E p, q \in Procs :
      /\ log[p].op = "reconnect_ssh" /\ log[p].res.done /\ ~log[p].res.ok
      /\ Len(log[p].connects) = 1
      /\ log[p].credsAtRet = Some(log[p].connects[1])
      /\ log[q].op = "connect_remote" /\ log[q].res.ok
      /\ log[q].credsAtRet = Some(log[q].connects[1])

-----------------------------------------------------------------------------
(* Properties of the chat history (SpecHistory, SpecSequential, SpecStream) *)

\* Two chat clients, each sending with send_chat_message or streaming, while
\* the clock advances; started with a session connected.
NextHistory ==
    \/ Sever
    \/ Tick
    \/ \E p \in Procs :
         \/ /\ nCalls < MaxOps
            /\ \/ send_chat_message_call(p, "message")
               \/ send_chat_message_stream_call(p)
         \/ send_chat_message_push(p)
         \/ send_chat_message_return(p)
         \/ send_chat_message_stream_lock(p)
         \/ send_chat_message_stream_channel(p)
         \/ send_chat_message_stream_read(p, SessionReads)
         \/ send_chat_message_stream_done(p)
         \/ send_chat_message_stream_fallback(p)
         \/ execute_bridge_lock(p)
         \/ execute_bridge_channel(p, ChatResults)
         \/ execute_bridge_creds(p)
         \/ execute_bridge_establish(p)
         \/ execute_bridge_channel_new(p, ChatResults)
         \/ execute_bridge_local(p, ChatResults)

SpecHistory == InitChat /\ [][NextHistory]_vars

\* C21: the timestamps of chat history are non-decreasing in insertion
\* order: no entry follows an entry that carries a later timestamp.
C21_TimestampsNonDecreasing ==
    \A i, j \in 1..Len(chat_history) :
      i < j => chat_history[i].timestamp <= chat_history[j].timestamp

\* One chat client calling send_chat_message again and again, each call after
\* the previous one has returned, in each configuration of InitStream.
Messages == {"m1", "m2"}

\* what the chat command may print: an Envelope with a response, plain text
SequentialResults ==
    { [stdout |-> <<"{", "\"success\"", ":", "true", ",", "\"data\"", ":", "{",
                    "\"response\"", ":", "\"hi\"", "}", "}">>,
       stderr |-> <<>>, exit |-> Some(0)],
      ROk }

NextSequential ==
    \/ Sever
    \/ /\ nCalls < MaxOps
       /\ \E message \in Messages : send_chat_message_call("p1", message)
    \/ send_chat_message_push("p1")
    \/ send_chat_message_return("p1")
    \/ execute_bridge_lock("p1")
    \/ execute_bridge_channel("p1", SequentialResults)
    \/ execute_bridge_creds("p1")
    \/ execute_bridge_establish("p1")
    \/ execute_bridge_channel_new("p1", SequentialResults)
    \/ execute_bridge_local("p1", SequentialResults)

SpecSequential == InitStream /\ [][NextSequential]_vars

\* C22: after n sequential send_chat_message calls that all returned Ok, chat
\* history has exactly 2n entries; entry 2k-1 is the user record of the k-th
\* message and entry 2k the assistant record of the k-th reply.
C22_SequentialSends ==
    (pc["p1"] = "idle" /\ \A k \in 1..Len(replies) : replies[k].res.ok) =>
        /\ Len(chat_history) = 2 * Len(replies)
        /\ \A k \in 1..Len(replies) :
             /\ chat_history[2 * k - 1].role = "user"
             /\ chat_history[2 * k - 1].content = <<replies[k].message>>
             /\ chat_history[2 * k].role = "assistant"
             /\ chat_history[2 * k].content = replies[k].res.val

\* C22 witness: two calls with different messages have returned Ok, with
\* different replies, and left four entries.
C22_Witness ==
    /\ pc["p1"] = "idle" /\ Len(replies) = 2 /\ Len(chat_history) = 4
    /\ replies[1].res.ok /\ replies[2].res.ok
    /\ replies[1].message # replies[2].message
    /\ replies[1].res.val # replies[2].res.val

-----------------------------------------------------------------------------
(* Properties of the task registry (SpecRegistry) *)

\* C23: get_swarm_status always returns Ok, with status 'not_found' for an id
\* that is not registered and with the task's description for one that is;
\* no step removes or changes a registered task, and start_swarm_task
\* registers its task under an id that was not registered before.
C23_Registry ==
    /\ [](\A q \in Procs :
            (log[q].op = "get_swarm_status" /\ log[q].res.done) => log[q].res.ok)
    /\ [][/\ \A id \in DOMAIN active_swarms :
               id \in DOMAIN active_swarms' /\ active_swarms'[id] = active_swarms[id]
          /\ \A p \in Procs :
               (pc[p] = "sw_insert" /\ pc'[p] # pc[p]) =>
                 \E id \in DOMAIN active_swarms' \ DOMAIN active_swarms :
                   /\ DOMAIN active_swarms' = DOMAIN active_swarms \cup {id}
                   /\ active_swarms'[id] = loc[p].arg
          /\ \A q \in Procs :
               (pc[q] = "gs_lock" /\ pc'[q] = "idle") =>
                 LET id == loc[q].arg
                     r == log'[q].res
                 IN  /\ r.ok
                     /\ r.val.id = id
                     /\ IF id \in DOMAIN active_swarms
                        THEN r.val.status = "completed"
                             /\ r.val.task = <<active_swarms[id]>>
                        ELSE r.val.status = "not_found"]_vars

\* C23 witness: a lookup has found the task that a start_swarm_task had
\* registered, while that command was still running.
C23_Witness ==
    \E p, q \in Procs :
      /\ log[q].op = "get_swarm_status" /\ log[q].res.done
      /\ log[q].res.val.status = "completed" /\ log[q].res.val.task = <<"t">>
      /\ log[p].op = "start_swarm_task" /\ pc[p] # "idle"

-----------------------------------------------------------------------------
(* Properties of the auto-reconnect (Spec) *)

\* C24: when the auto-reconnect of an execute call has established a new
\* session, that session is the stored session when the call returns,
\* whatever became of the command run on it.
C24_ReconnectedSessionStored ==
    \A p \in Procs :
      (BridgeReturned(p) /\ log[p].res.done /\ log[p].connectOk) =>
        /\ IsSome(log[p].sessAtRet)
        /\ Unwrap(log[p].sessAtRet).id = log[p].chans[1].id

-----------------------------------------------------------------------------
(* Properties of the streaming call's record (SpecStream) *)

\* the positions of the assistant records with this id
AssistantRecords(id) ==
    {i \in 1..Len(chat_history) :
       chat_history[i].role = "assistant" /\ chat_history[i].id = id}

\* C25: for every chat-done event emitted by a streaming call, chat history
\* holds exactly one assistant record with the event's message id, after the
\* user record of that call.
C25_DoneHasRecord ==
    \A p \in Procs :
      (IsStream(p) /\ CountOf(log[p].message_id, "chat-done") >= 1) =>
        /\ Cardinality(AssistantRecords(log[p].message_id)) = 1
        /\ \A i \in AssistantRecords(log[p].message_id) :
             \E j \in 1..(i - 1) :
               /\ chat_history[j].role = "user"
               /\ chat_history[j].id = 0 - log[p].message_id

-----------------------------------------------------------------------------
(* get_nexus_status.  A text is a sequence of words and line breaks.        *)

RECURSIVE trim_start(_)
trim_start(t) == IF t # <<>> /\ Head(t) = "\n" THEN trim_start(Tail(t)) ELSE t

RECURSIVE trim_end(_)
trim_end(t) ==
    IF t # <<>> /\ t[Len(t)] = "\n" THEN trim_end(SubSeq(t, 1, Len(t) - 1)) ELSE t

\* str::trim
trim(t) == trim_end(trim_start(t))

\* str::to_lowercase, str::contains (a pattern is one word)
to_lowercase(t) == [i \in 1..Len(t) |-> IF t[i] = "Error" THEN "error" ELSE t[i]]
contains(t, word) == \E i \in 1..Len(t) : t[i] = word

\* let is_installed = !version_trimmed.is_empty() && version_trimmed != "Unknown" && ..
is_installed(version_trimmed) ==
    /\ version_trimmed # <<>>
    /\ version_trimmed # <<"Unknown">>
    /\ ~contains(to_lowercase(version_trimmed), "failed")
    /\ ~contains(to_lowercase(version_trimmed), "error")
    /\ ~contains(to_lowercase(version_trimmed), "not found")

\* Result::unwrap_or_default, Result::unwrap_or_else(|_| "Unknown")
unwrap_or_default(res) == IF res.ok THEN res.val ELSE <<>>
unwrap_or_unknown(res) == IF res.ok THEN res.val ELSE <<"Unknown">>

\* Option<&str>::unwrap_or("unknown")
unwrap_or(o, d) == IF IsSome(o) THEN Unwrap(o) ELSE d

\* the string literal of a text (the key of json[..] for a computed key)
Lexeme(text) ==
    IF \E l \in StrLits : StrText(l) = text
    THEN CHOOSE l \in StrLits : StrText(l) = text
    ELSE "\"\""

\* get_provider_and_model_from_config, after its execute_nexus_bridge call
provider_and_model(config_result) ==
    LET parsed == IF config_result.ok THEN from_str(config_result.val) ELSE None
    IN  IF IsSome(parsed) /\ as_bool(JIndex(Unwrap(parsed), "\"success\"")) = Some(TRUE)
        THEN LET data == JIndex(Unwrap(parsed), "\"data\"")
                 provider == as_str(JIndex(data, "\"default_provider\""))
                 model == IF IsSome(provider)
                          THEN as_str(JIndex(JIndex(JIndex(data, "\"providers\""),
                                                    Lexeme(Unwrap(provider))),
                                             "\"default_model\""))
                          ELSE None
             IN  <<provider, model>>
        ELSE <<None, None>>

\* NexusStatus (daemon_running is always false, daemon_port always None)
NexusStatus(version, platform, nexus_installed, connection_mode, ssh_latency, remote_nexus_installed) ==
    [ version |-> version, platform |-> platform,
      nexus_installed |-> nexus_installed, current_project |-> None,
      provider |-> None, model |-> None, connection_mode |-> Some(connection_mode),
      ssh_latency |-> ssh_latency, remote_nexus_installed |-> Some(remote_nexus_installed) ]

\* std::env::consts::OS, and the latency measured (some number of ms)
OS == <<"linux">>
Latency == Some("ms")

\* the record of one execute_nexus_bridge call among several of a command:
\* it starts afresh with every call
NextExecute(l) ==
    Merge(InitLog, [op |-> l.op, execs |-> l.execs + 1, via |-> l.via])

\* the caller goes into execute_nexus_bridge, to come back at ret
CallBridge(p, ret, l) ==
    /\ pc' = [pc EXCEPT ![p] = "ex_lock"]
    /\ loc' = [loc EXCEPT ![p] = Merge(@, [kind |-> "nexus", ret |-> ret, res |-> Pending] @@ l)]
    /\ log' = [log EXCEPT ![p] = NextExecute(@)]

\* the path on which the execute_nexus_bridge call that just returned ran
Via(p) ==
    IF loc[p].res.ok /\ log[p].runs # <<>>
    THEN log[p].runs[Len(log[p].runs)].path
    ELSE "none"

get_nexus_status_call(p) ==
    /\ Begin(p, "get_nexus_status", "gn_lock", [kind |-> "nexus"])
    /\ UNCHANGED <<ssh_session, ssh_credentials, chat_history, session_lock,
                   creds_lock, events, transportUp, nSessions, nReads,
                   current_project, active_swarms, severed, now, replies>>

\* a status check that keeps the session lock while it calls the bridge
get_nexus_status_lock_holding(p) ==
    /\ pc[p] = "gn_lock"
    /\ LockFree(session_lock)
    /\ session_lock' = Some(p)
    /\ UNCHANGED <<ssh_session, ssh_credentials, chat_history, creds_lock, events,
                   transportUp, nSessions, nCalls, nReads, current_project,
                   active_swarms, severed, now, replies>>
    /\ CallBridge(p, "gn_latency", [has_ssh |-> TRUE])

\* let ssh_session = state.ssh_session.lock().await; let has_ssh = ssh_session.is_some();
\* drop(ssh_session); if !has_ssh { return Ok(NexusStatus {"Not Connected", ..}) }
\* let _ = execute_nexus_bridge(&["--version"], &state)
get_nexus_status_lock(p) ==
    /\ pc[p] = "gn_lock"
    /\ LockFree(session_lock)
    /\ UNCHANGED <<ssh_session, ssh_credentials, chat_history, session_lock,
                   creds_lock, events, transportUp, nSessions, nCalls, nReads,
                   current_project, active_swarms, severed, now, replies>>
    /\ IF IsSome(ssh_session)
       THEN CallBridge(p, "gn_latency", [has_ssh |-> TRUE])
       ELSE Return(p, Ok(NexusStatus(<<"Not Connected">>, OS, FALSE, "none", None, FALSE)),
                   [saw |-> ssh_session])

\* let latency = start.elapsed(); Some(latency);
\* execute_nexus_bridge(&["--json", "info"], &state)
get_nexus_status_latency(p) ==
    /\ pc[p] = "gn_latency"
    /\ UNCHANGED <<ssh_session, ssh_credentials, chat_history, session_lock,
                   creds_lock, events, transportUp, nSessions, nCalls, nReads,
                   current_project, active_swarms, severed, now, replies>>
    /\ CallBridge(p, "gn_info", [has_ssh |-> loc[p].has_ssh])

\* let raw = ..unwrap_or_default(); if let Ok(json) = from_str(&raw) {
\*   if json["success"] == true { get_provider_and_model_from_config(..) .. } }
\* let version = execute_nexus_bridge(&["--version"], &state)
get_nexus_status_info(p) ==
    /\ pc[p] = "gn_info"
    /\ UNCHANGED <<ssh_session, ssh_credentials, chat_history, session_lock,
                   creds_lock, events, transportUp, nSessions, nCalls, nReads,
                   current_project, active_swarms, severed, now, replies>>
    /\ LET raw == unwrap_or_default(loc[p].res)
           parsed == from_str(raw)
       IN  IF IsSome(parsed) /\ as_bool(JIndex(Unwrap(parsed), "\"success\"")) = Some(TRUE)
           THEN LET data == JIndex(Unwrap(parsed), "\"data\"")
                    st == NexusStatus(
                            unwrap_or(as_str(JIndex(data, "\"version\"")), <<"unknown">>),
                            unwrap_or(as_str(JIndex(data, "\"platform\"")), <<"unknown">>),
                            TRUE,
                            IF loc[p].has_ssh THEN "ssh" ELSE "local",
                            Latency, TRUE)
                IN  /\ pc' = [pc EXCEPT ![p] = "ex_lock"]
                    /\ loc' = [loc EXCEPT ![p] =
                                 Merge(@, [ret |-> "gn_config", res |-> Pending,
                                           status |-> Some(st)])]
                    /\ log' = [log EXCEPT ![p] = NextExecute(Merge(@, [via |-> <<Via(p)>>]))]
           ELSE CallBridge(p, "gn_version", [has_ssh |-> loc[p].has_ssh])

\* let version_trimmed = version.trim(); let is_installed = ..;
\* if has_ssh { if is_installed { ("ssh", true) } else { local fallback } } else { ("local", false) }
get_nexus_status_version(p) ==
    /\ pc[p] = "gn_version"
    /\ UNCHANGED <<ssh_session, ssh_credentials, chat_history, session_lock,
                   creds_lock, events, transportUp, nSessions, nCalls, nReads,
                   current_project, active_swarms, severed, now, replies>>
    /\ LET version_trimmed == trim(unwrap_or_unknown(loc[p].res))
           installed == is_installed(version_trimmed)
           st(mode, remote) == NexusStatus(version_trimmed, OS, installed, mode,
                                           Latency, remote)
       IN  IF loc[p].has_ssh /\ ~installed
           THEN /\ pc' = [pc EXCEPT ![p] = "gn_local"]
                /\ loc' = [loc EXCEPT ![p] = Merge(@, [status |-> Some(st("none", FALSE))])]
                /\ log' = [log EXCEPT ![p] = Merge(@, [via |-> <<Via(p)>>])]
           ELSE /\ pc' = [pc EXCEPT ![p] = "ex_lock"]
                /\ loc' = [loc EXCEPT ![p] =
                             Merge(@, [ret |-> "gn_config", res |-> Pending,
                                       status |-> Some(IF loc[p].has_ssh
                                                       THEN st("ssh", TRUE)
                                                       ELSE st("local", FALSE))])]
                /\ log' = [log EXCEPT ![p] = NextExecute(Merge(@, [via |-> <<Via(p)>>]))]

\* let local_version = TokioCommand::new("nexus").arg("--version").output().await.ok()
\*     .and_then(|o| String::from_utf8(o.stdout).ok()).unwrap_or_default();
\* if !local_version.trim().is_empty() { ("local", false) } else { ("none", false) }
get_nexus_status_local(p, R) ==
    /\ pc[p] = "gn_local"
    /\ UNCHANGED <<ssh_session, ssh_credentials, chat_history, session_lock,
                   creds_lock, events, transportUp, nSessions, nCalls, nReads,
                   current_project, active_swarms, severed, now, replies>>
    /\ \E o \in {Err("spawn error")} \cup {read_to_string(r.stdout) : r \in R} :
         LET local_version == unwrap_or_default(o)
             mode == IF trim(local_version) # <<>> THEN "local" ELSE "none"
         IN  /\ pc' = [pc EXCEPT ![p] = "ex_lock"]
             /\ loc' = [loc EXCEPT ![p] =
                          Merge(@, [ret |-> "gn_config", res |-> Pending,
                                    status |-> Some(Merge(Unwrap(@.status),
                                                   [connection_mode |-> Some(mode)]))])]
             /\ log' = [log EXCEPT ![p] = NextExecute(@)]

\* let (provider, model) = get_provider_and_model_from_config(&state).await;
\* Ok(NexusStatus { .., current_project: state.current_project.lock().await.., provider, model, .. })
get_nexus_status_config(p) ==
    /\ pc[p] = "gn_config"
    /\ LockFree(EntryLock("current_project"))
    /\ UNCHANGED <<ssh_session, ssh_credentials, chat_history, session_lock,
                   creds_lock, events, transportUp, nSessions, nCalls, nReads,
                   current_project, active_swarms, severed, now, replies>>
    /\ Return(p, Ok(Merge(Unwrap(loc[p].status),
                          [provider |-> provider_and_model(loc[p].res)[1],
                           model |-> provider_and_model(loc[p].res)[2],
                           current_project |->
                             IF IsSome(current_project)
                             THEN Some(to_string_lossy(Unwrap(current_project)))
                             ELSE None])),
              Ended)

\* what a nexus command may print: the Envelope of `--json info`, the line of
\* `--version`, an error message
StatusResults ==
    { [stdout |-> <<"{", "\"success\"", ":", "true", ",", "\"data\"", ":", "{",
                    "\"version\"", ":", "\"1.0\"", "}", "}">>,
       stderr |-> <<>>, exit |-> Some(0)],
      [stdout |-> <<"nexus 1.0", "\n">>, stderr |-> <<>>, exit |-> Some(0)],
      [stdout |-> <<"Error", "\n">>, stderr |-> <<>>, exit |-> Some(1)] }

\* what the local `nexus --version` may print
LocalVersions ==
    { [stdout |-> <<"nexus 1.0", "\n">>, stderr |-> <<>>, exit |-> Some(0)],
      [stdout |-> <<>>, stderr |-> <<>>, exit |-> Some(1)] }

\* a step of a command that has been called
StatusStep(p) ==
    \/ get_nexus_status_lock(p)
    \/ get_nexus_status_latency(p)
    \/ get_nexus_status_info(p)
    \/ get_nexus_status_version(p)
    \/ get_nexus_status_local(p, LocalVersions)
    \/ get_nexus_status_config(p)
    \/ send_chat_message_stream_lock(p)
    \/ send_chat_message_stream_channel(p)
    \/ send_chat_message_stream_read(p, SessionReads)
    \/ send_chat_message_stream_done(p)
    \/ send_chat_message_stream_fallback(p)
    \/ check_ssh_status_lock(p)
    \/ check_ssh_status_creds(p)
    \/ connect_remote_establish(p)
    \/ connect_remote_store_session(p)
    \/ connect_remote_store_creds(p)
    \/ reconnect_ssh_creds(p)
    \/ reconnect_ssh_establish(p)
    \/ reconnect_ssh_store(p)
    \/ execute_bridge_lock(p)
    \/ execute_bridge_channel(p, StatusResults)
    \/ execute_bridge_creds(p)
    \/ execute_bridge_establish(p)
    \/ execute_bridge_channel_new(p, StatusResults)
    \/ execute_bridge_local(p, StatusResults)

\* One status check or streaming chat of one client ("p1") next to the session
\* commands of another ("p2"), started with a session connected.
NextStatus ==
    \/ Sever
    \/ /\ nCalls < MaxOps
       /\ \/ /\ log["p1"].op = "none"
             /\ \/ get_nexus_status_call("p1")
                \/ send_chat_message_stream_call("p1")
          \/ check_ssh_status_call("p2")
          \/ connect_remote_call("p2", StreamCred)
          \/ reconnect_ssh_call("p2")
          \/ scan_project_call("p2")
    \/ \E p \in Procs : StatusStep(p)

SpecStatus == InitChat /\ [][NextStatus]_vars

-----------------------------------------------------------------------------
(* Properties of the locks (SpecStatus) *)

\* the steps that lock the ssh_session mutex / the ssh_credentials mutex
SessionLockWaits ==
    {"ex_lock", "st_lock", "cs_lock", "gn_lock", "cr_store_session", "rc_store"}
CredsLockWaits == {"ex_creds", "cs_creds", "cr_store_creds", "rc_creds"}

\* the owner of the mutex that p's next step locks
WaitsFor(p) ==
    IF pc[p] \in SessionLockWaits THEN session_lock
    ELSE IF pc[p] \in CredsLockWaits THEN creds_lock
    ELSE None
Blocked(p) == IsSome(WaitsFor(p))

\* the steps that begin by locking a mutex
LockStep(p) ==
    \/ execute_bridge_lock(p)
    \/ execute_bridge_creds(p)
    \/ send_chat_message_stream_lock(p)
    \/ check_ssh_status_lock(p)
    \/ check_ssh_status_creds(p)
    \/ get_nexus_status_lock(p)
    \/ connect_remote_store_session(p)
    \/ connect_remote_store_creds(p)
    \/ reconnect_ssh_creds(p)
    \/ reconnect_ssh_store(p)

\* C26: no command requests a mutex it holds; the credentials mutex is held
\* only by the holder of the session mutex (the order session ->
\* credentials) and the chat history mutex is never held across a step; a
\* command about to lock a mutex either takes it or waits for a holder that
\* is not waiting for a mutex itself.
C26_NoDeadlock ==
    /\ \A p \in Procs : WaitsFor(p) # Some(p)
    /\ \A p \in Procs : creds_lock = Some(p) => session_lock = Some(p)
    /\ EntryLock("chat_history") = None
    /\ \A p \in Procs :
         pc[p] \in SessionLockWaits \cup CredsLockWaits =>
           IF Blocked(p)
           THEN ~Blocked(Unwrap(WaitsFor(p)))
           ELSE ENABLED LockStep(p)

\* C26 witness: the bridge call of a status check waits for the session
\* mutex while another command holds it together with the credentials mutex.
C26_Witness ==
    \E p, q \in Procs :
      /\ p # q
      /\ log[p].op = "get_nexus_status" /\ pc[p] = "ex_lock"
      /\ session_lock = Some(q) /\ creds_lock = Some(q)

-----------------------------------------------------------------------------
(* Properties of get_nexus_status (SpecStatus) *)

\* C27: a status that reports connection_mode 'ssh' reports a version that
\* was obtained over an SSH session, the stored one or a reconnected one.
C27_SshOnlyOverSsh ==
    \A p \in Procs :
      (log[p].op = "get_nexus_status" /\ log[p].res.done
         /\ log[p].res.val.connection_mode = Some("ssh")) =>
        log[p].via \in {<<"session">>, <<"reconnected">>}

-----------------------------------------------------------------------------
(* Properties of the session commands, step by step (SpecSession) *)

\* p takes a step of the command it is running at one of these positions
Steps(p, at) == pc[p] \in at /\ pc'[p] # pc[p]
\* the step makes p's command return an error / return Ok
ReturnsErr(p) == pc'[p] = "idle" /\ log'[p].res.done /\ ~log'[p].res.ok
ReturnsOk(p) == pc'[p] = "idle" /\ log'[p].res.done /\ log'[p].res.ok
\* the step leaves the stored session, its transport and the credentials alone
SlotsKept ==
    /\ ssh_session' = ssh_session
    /\ ssh_credentials' = ssh_credentials
    /\ transportUp' = transportUp

\* C28: reconnect_ssh with no stored credentials returns an error and leaves
\* the session slot unchanged; when establish_ssh fails it returns the error
\* and leaves the stored session, stale or not, in place; it replaces the
\* stored session only by the session it established, and then returns Ok.
C28_ReconnectAllOrNothing ==
    [][\A p \in Procs :
         /\ Steps(p, {"rc_creds"}) =>
               /\ SlotsKept
               /\ ssh_credentials = None <=> ReturnsErr(p)
               /\ ssh_credentials # None => pc'[p] = "rc_establish"
         /\ Steps(p, {"rc_establish"}) =>
               /\ ssh_session' = ssh_session
               /\ ssh_credentials' = ssh_credentials
               /\ ReturnsErr(p) => transportUp' = transportUp
               /\ ReturnsErr(p) \/ pc'[p] = "rc_store"
         /\ Steps(p, {"rc_store"}) =>
               /\ ReturnsOk(p)
               /\ IsSome(loc[p].sess) /\ ssh_session' = loc[p].sess
               /\ ssh_session' # ssh_session
               /\ ssh_credentials' = ssh_credentials
         /\ (Steps(p, {"rc_creds", "rc_establish", "rc_store"})
               /\ ssh_session' # ssh_session) => ReturnsOk(p)
      ]_vars

\* a reconnect has failed to establish and the stale session is still stored
C28_Witness ==
    \E p \in Procs :
      /\ log[p].op = "reconnect_ssh" /\ log[p].res.done /\ ~log[p].res.ok
      /\ log[p].connects # <<>>
      /\ IsSome(ssh_session) /\ ssh_session = log[p].sessAtRet
      /\ ~is_session_alive(Unwrap(ssh_session))

\* C29: every step of a connect_remote call that fails (the call itself and
\* its establish_ssh) leaves the stored session and the stored credentials
\* as they were, and the call fails nowhere else.
C29_FailedConnectFrame ==
    [][\A p \in Procs :
         /\ (pc[p] = "idle" /\ pc'[p] = "cr_establish") => SlotsKept
         /\ (Steps(p, {"cr_establish"}) /\ ReturnsErr(p)) => SlotsKept
         /\ (Steps(p, {"cr_establish", "cr_store_session", "cr_store_creds"})
               /\ ReturnsErr(p)) => pc[p] = "cr_establish"
         /\ (Steps(p, {"cr_establish"}) /\ ~ReturnsErr(p)) =>
               pc'[p] = "cr_store_session"
      ]_vars

\* a connect_remote has failed next to a stored session and stored
\* credentials other than the ones it was called with
C29_Witness ==
    \E p \in Procs :
      /\ log[p].op = "connect_remote" /\ log[p].res.done /\ ~log[p].res.ok
      /\ log[p].connects # <<>>
      /\ IsSome(log[p].sessAtRet) /\ IsSome(log[p].credsAtRet)
      /\ Unwrap(log[p].credsAtRet) # log[p].connects[1]

\* C30: check_ssh_status returns 'connected' iff a session is stored and its
\* probe succeeds, 'stale' iff one is stored and its probe fails,
\* 'disconnected' iff none is stored but credentials are, 'unconfigured' iff
\* neither is stored, and none of its steps changes the stored session or
\* the stored credentials.
C30_PureObservation ==
    [][\A p \in Procs :
         Steps(p, {"cs_lock", "cs_creds"}) =>
           /\ SlotsKept
           /\ pc'[p] = "idle" =>
                 LET status == log'[p].res.val
                     stored == IsSome(ssh_session)
                     alive == stored /\ is_session_alive(Unwrap(ssh_session))
                 IN  /\ ReturnsOk(p)
                     /\ status = <<"connected">> <=> alive
                     /\ status = <<"stale">> <=> (stored /\ ~alive)
                     /\ status = <<"disconnected">> <=>
                          (~stored /\ IsSome(ssh_credentials))
                     /\ status = <<"unconfigured">> <=>
                          (~stored /\ ~IsSome(ssh_credentials))
      ]_vars

\* check_ssh_status has answered 'stale' and the stale session is still stored
C30_Witness ==
    \E p \in Procs :
      /\ log[p].op = "check_ssh_status" /\ log[p].res.done
      /\ log[p].res.val = <<"stale">>
      /\ IsSome(log[p].sessAtRet) /\ ssh_session = log[p].sessAtRet
      /\ ~is_session_alive(Unwrap(ssh_session))

====
